---- MODULE Spec2Model ----
(***************************************************************************)
(* Model of the data layer of the analytics dashboard:                     *)
(*   - the useUserData hook and its paginated fetch loops                  *)
(*     (src/unnamed/part_005),                                             *)
(*   - the session detail assembler fetchUserSessionEvents                 *)
(*     (src/src/utils/dataFetchers.ts) and the session drawer of           *)
(*     useAnalytics (src/src/hooks/useAnalytics.ts),                       *)
(*   - the dashboard load / filter / fetch sequences of useAnalytics,      *)
(*   - the aggregations of dataFetchers.ts called on their own.            *)
(* Every await of the source is a point where the model splits a handler   *)
(* into two actions: the code up to the request, and the code that runs    *)
(* when the response (data or error) arrives.                              *)
(***************************************************************************)
EXTENDS Integers, Sequences, FiniteSets, TLC

VARIABLES
  \* ---- remote store, users side
  usersTable,      \* rows of table users, in created_at-descending order; a row is its created_at
  sessionsTable,   \* rows of table user_sessions: [user_id, is_active]
  \* ---- useUserData hook state (useState)
  udUsers, udLoading, udError,
  \* ---- useUserData: the call in progress and its locals
  mounted,         \* the mount effect has run
  fn,              \* the fetch function in progress, "none" when idle
  filters,         \* its arguments
  phase,           \* which loop of the function is running: "users" | "sessions"
  allUsers,        \* accumulator of the users loop (allUsers / allFilteredUsers / allUsersInRange / allUsersData)
  allActiveSessions, \* accumulator of the sessions loop of fetchUserStatistics
  offset, hasMore,
  requests,        \* log of the page requests of the running loop: [from, to, got]
  ret,             \* what the last finished call returned
  \* ---- remote store, session detail side
  dbSessions,      \* rows of user_sessions: [id, user_id, started_at, ended_at]
  dbEvents,        \* rows of user_analytics_events, in created_at order: [session_id, page_path, created_at]
  dbSubscriptions, \* rows of subscriptions: [user_id, status, plan_id]
  \* ---- useAnalytics: session drawer state (useState)
  isDrawerOpen, selectedSession, drawerLoading, drawerError,
  \* ---- openSessionDrawer calls in flight, in the order they were made
  drawerCalls,
  lastCall,        \* what the openSessionDrawer call that finished last did
  lastOpened,      \* the sessionId of the most recent openSessionDrawer call
  \* ---- remote store, dashboard side
  dashUsers,       \* rows of users: [id, created_at, user_type, has_active_subscription]
  dashSessions,    \* rows of user_sessions: [user_id, is_active]
  dashEvents,      \* rows of user_analytics_events
  \* ---- useAnalytics: view-model slots and flags (useState)
  overview, users, eventAnalytics, trafficSources, pageAnalytics,
  loading, error,
  dateFilters,     \* per section: [type, startDate, endDate] (xFilterType, customXDateRange)
  \* ---- useAnalytics: fetch sequences in flight
  analyticsMounted, \* the effect has run for the first render
  batches,         \* fetchAllData / refetch invocations with a fetch still in flight, oldest first
  latest,          \* per section: the query of its most recently started fetch and how it ended
  failures,        \* remote failures injected so far
  started,         \* invocations of fetchAllData / refetch so far
  \* ---- dataFetchers called on their own: the store, the call and what it returned
  aggEvents,       \* rows of user_analytics_events
  aggSessions,     \* rows of user_sessions: [user_id, is_active]
  aggCall,         \* the function called last and its argument
  aggOut,          \* what that call returned, or that it threw
  \* ---- UserAndSessionTable: its prop, its state, and whether Dashboard renders it
  tableUsers,      \* the users prop
  currentPage,     \* useState(1)
  tableMounted,    \* Dashboard renders the table (neither loading nor error)
  \* ---- useUserData: a fetchUsersPaginated call and what it returned
  pagedCall,       \* its arguments, and whether its request is in flight
  pagedOut         \* the object it returned

fetchVars == <<usersTable, sessionsTable, udUsers, udLoading, udError, mounted, fn,
               filters, phase, allUsers, allActiveSessions, offset, hasMore, requests, ret>>

drawerVars == <<dbSessions, dbEvents, dbSubscriptions, isDrawerOpen, selectedSession,
                drawerLoading, drawerError, drawerCalls, lastCall, lastOpened>>

dashVars == <<dashUsers, dashSessions, dashEvents, overview, users, eventAnalytics,
              trafficSources, pageAnalytics, loading, error, dateFilters,
              analyticsMounted, batches, latest, failures, started>>

aggVars == <<aggEvents, aggSessions, aggCall, aggOut>>

tableVars == <<tableUsers, currentPage, tableMounted>>

pagedVars == <<pagedCall, pagedOut>>

vars == <<fetchVars, drawerVars, dashVars, aggVars, tableVars, pagedVars>>

\* what the actions of one part leave alone
notFetchVars == <<drawerVars, dashVars, aggVars, tableVars, pagedVars>>

notDrawerVars == <<fetchVars, dashVars, aggVars, tableVars, pagedVars>>

notDashVars == <<fetchVars, drawerVars, aggVars, tableVars, pagedVars>>

notAggVars == <<fetchVars, drawerVars, dashVars, tableVars, pagedVars>>

notTableVars == <<fetchVars, drawerVars, dashVars, aggVars, pagedVars>>

(***************************************************************************)
(* Constants of the program and bounds of the model                        *)
(***************************************************************************)
fetchSize == 1000

\* the users table holds up to MaxFullPages full pages plus a partial one
MaxFullPages == 2

Null == "null"

\* an optional argument that was not passed (undefined), falsy in the code's tests
Undefined == 0

Min(a, b) == IF a <= b THEN a ELSE b

CeilDiv(n, d) == (n + d - 1) \div d

\* row counts around the page boundaries: 0, 1, half a page, and the same past each full page
RowCounts == {k * fetchSize + d : k \in 0..MaxFullPages, d \in {0, 1, fetchSize \div 2}}

\* created_at values used as filter bounds
FilterDates == {fetchSize \div 2 + 1}

OptDates == FilterDates \cup {Undefined}

TriState == {"undefined", "true", "false"}

NoFilters == [createdAfter |-> Undefined, createdBefore |-> Undefined, hasActiveSession |-> "undefined"]

NoReturn == [kind |-> "none", rows |-> <<>>, totalUsers |-> 0, activeUsers |-> 0]

(***************************************************************************)
(* The remote store's answer to a range request                            *)
(***************************************************************************)
\* rows of users matching the query's created_at conditions, in the query's order
\* (.gte / .lte are added only for the bounds the function applies)
Matching(table, f) ==
  IF f.createdAfter = Undefined /\ f.createdBefore = Undefined THEN table
  ELSE SelectSeq(table, LAMBDA r :
         /\ (f.createdAfter # Undefined => r >= f.createdAfter)
         /\ (f.createdBefore # Undefined => r <= f.createdBefore))

\* user_sessions rows with is_active = true
ActiveSessions(table) == SelectSeq(table, LAMBDA s : s.is_active)

\* .range(from, to): rows from..to (0-based, inclusive) of the ordered result
Range(rows, from, to) == SubSeq(rows, from + 1, Min(to + 1, Len(rows)))

\* the result set the running loop pages through
LoopRows ==
  IF phase = "sessions" THEN ActiveSessions(sessionsTable) ELSE Matching(usersTable, filters)

(***************************************************************************)
(* useUserData                                                             *)
(***************************************************************************)
\* mutant of PageRequest: a page starts at the last row of the previous one
PageRequestOverlapping(off) ==
  [from |-> IF off = 0 THEN 0 ELSE off - 1, to |-> off + fetchSize - 1, got |-> -1]

\* the request of one loop iteration: .range(offset, offset + fetchSize - 1)
PageRequest(off) == [from |-> off, to |-> off + fetchSize - 1, got |-> -1]

\* mutants of HasMoreAfter: never another page / another page while rows arrive
HasMoreNever(data) == Len(data) > fetchSize

HasMoreWhileRows(data) == Len(data) > 0

\* hasMore = data?.length === fetchSize
HasMoreAfter(data) == Len(data) = fetchSize

\* setLoading(true); setError(null); locals initialised; the loop's first request is sent
StartCall(f, args) ==
  /\ UNCHANGED notFetchVars
  /\ mounted
  /\ fn = "none"
  /\ fn' = f
  /\ filters' = args
  /\ phase' = "users"
  /\ udLoading' = TRUE
  /\ udError' = Null
  /\ allUsers' = <<>>
  /\ allActiveSessions' = <<>>
  /\ offset' = 0
  /\ hasMore' = TRUE
  /\ requests' = <<PageRequest(0)>>
  /\ ret' = NoReturn
  /\ UNCHANGED <<usersTable, sessionsTable, udUsers, mounted>>

\* useEffect(() => { fetchAllUsers(); }, [])
MountEffect ==
  /\ UNCHANGED notFetchVars
  /\ ~mounted
  /\ mounted' = TRUE
  /\ fn' = "fetchAllUsers"
  /\ filters' = NoFilters
  /\ phase' = "users"
  /\ udLoading' = TRUE
  /\ udError' = Null
  /\ allUsers' = <<>>
  /\ allActiveSessions' = <<>>
  /\ offset' = 0
  /\ hasMore' = TRUE
  /\ requests' = <<PageRequest(0)>>
  /\ ret' = NoReturn
  /\ UNCHANGED <<usersTable, sessionsTable, udUsers>>

fetchAllUsers == StartCall("fetchAllUsers", NoFilters)

fetchUsersWithFilters ==
  \E a \in OptDates, b \in OptDates, s \in TriState :
    StartCall("fetchUsersWithFilters",
              [createdAfter |-> a, createdBefore |-> b, hasActiveSession |-> s])

fetchUsersByDateRange ==
  \E a \in FilterDates, b \in FilterDates :
    StartCall("fetchUsersByDateRange",
              [createdAfter |-> a, createdBefore |-> b, hasActiveSession |-> "undefined"])

fetchUserStatistics == StartCall("fetchUserStatistics", NoFilters)

\* user.user_sessions?.some(session => session.is_active)
HasActiveSession(u) == \E i \in 1..Len(sessionsTable) :
  sessionsTable[i].user_id = u /\ sessionsTable[i].is_active

\* the post-query filter of fetchUsersWithFilters
PostFilter(rows, f) ==
  IF f.hasActiveSession = "undefined" THEN rows
  ELSE SelectSeq(rows, LAMBDA u :
         IF f.hasActiveSession = "true" THEN HasActiveSession(u) ELSE ~HasActiveSession(u))

\* mutant of UniqueActiveUsers: the session rows are counted
ActiveSessionRows(sess) == Len(sess)

\* new Set(allActiveSessions.map(s => s.user_id)).size
UniqueActiveUsers(sess) == Cardinality({sess[i].user_id : i \in 1..Len(sess)})

Answered(reqs, n) == [reqs EXCEPT ![Len(reqs)].got = n]

\* a page arrives without error: push, advance, test hasMore, then either loop or finish
PageSuccess ==
  /\ UNCHANGED notFetchVars
  /\ fn # "none"
  /\ LET data == Range(LoopRows, offset, offset + fetchSize - 1)
         acc  == IF phase = "users" THEN allUsers ELSE allActiveSessions
         acc2 == IF Len(data) > 0 THEN acc \o data ELSE acc
         off2 == IF Len(data) > 0 THEN offset + Len(data) ELSE offset
         more == HasMoreAfter(data)
         log  == Answered(requests, Len(data))
     IN
       IF more
       THEN \* next iteration of the while loop: the next request is sent
            /\ allUsers' = (IF phase = "users" THEN acc2 ELSE allUsers)
            /\ allActiveSessions' = (IF phase = "sessions" THEN acc2 ELSE allActiveSessions)
            /\ offset' = off2
            /\ hasMore' = TRUE
            /\ requests' = Append(log, PageRequest(off2))
            /\ UNCHANGED <<usersTable, sessionsTable, udUsers, udLoading, udError,
                           mounted, fn, filters, phase, ret>>
       ELSE IF fn = "fetchUserStatistics" /\ phase = "users"
       THEN \* offset = 0; hasMore = true; the sessions loop sends its first request
            /\ allUsers' = acc2
            /\ allActiveSessions' = <<>>
            /\ phase' = "sessions"
            /\ offset' = 0
            /\ hasMore' = TRUE
            /\ requests' = <<PageRequest(0)>>
            /\ UNCHANGED <<usersTable, sessionsTable, udUsers, udLoading, udError,
                           mounted, fn, filters, ret>>
       ELSE IF fn = "fetchUserStatistics"
       THEN \* statistics computed and returned; users state is not written
            /\ allActiveSessions' = acc2
            /\ offset' = off2
            /\ hasMore' = FALSE
            /\ requests' = log
            /\ ret' = [kind |-> "stats", rows |-> <<>>,
                       totalUsers |-> Len(allUsers),
                       activeUsers |-> UniqueActiveUsers(acc2)]
            /\ udLoading' = FALSE
            /\ fn' = "none"
            /\ UNCHANGED <<usersTable, sessionsTable, udUsers, udError, mounted,
                           filters, phase, allUsers>>
       ELSE \* setUsers(result); return result; finally setLoading(false)
            /\ allUsers' = acc2
            /\ offset' = off2
            /\ hasMore' = FALSE
            /\ requests' = log
            /\ udUsers' = PostFilter(acc2, filters)
            /\ ret' = [kind |-> "rows", rows |-> PostFilter(acc2, filters),
                       totalUsers |-> 0, activeUsers |-> 0]
            /\ udLoading' = FALSE
            /\ fn' = "none"
            /\ UNCHANGED <<usersTable, sessionsTable, udError, mounted, filters, phase,
                           allActiveSessions>>

\* the message set by the catch block of each function
ErrorMessage(f) ==
  CASE f = "fetchAllUsers" -> "Failed to fetch users"
    [] f = "fetchUsersWithFilters" -> "Failed to fetch filtered users"
    [] f = "fetchUsersByDateRange" -> "Failed to fetch users between"
    [] OTHER -> "Failed to fetch user statistics"

\* mutant of ErrorReturn: the rows accumulated so far are returned
ErrorReturnPartial(f) ==
  [kind |-> "rows", rows |-> allUsers, totalUsers |-> 0, activeUsers |-> 0]

\* what the catch block returns: return [] (return null in fetchUserStatistics)
ErrorReturn(f) ==
  [kind |-> IF f = "fetchUserStatistics" THEN "null" ELSE "rows",
   rows |-> <<>>, totalUsers |-> 0, activeUsers |-> 0]

\* a page request answers with an error: throw, catch, finally
PageError ==
  /\ UNCHANGED notFetchVars
  /\ fn # "none"
  /\ requests' = Answered(requests, -2)
  /\ udError' = ErrorMessage(fn)
  /\ ret' = ErrorReturn(fn)
  /\ udLoading' = FALSE
  /\ fn' = "none"
  /\ UNCHANGED <<usersTable, sessionsTable, udUsers, mounted, filters, phase,
                 allUsers, allActiveSessions, offset, hasMore>>

\* clearError / clearUsers
clearError ==
  /\ UNCHANGED notFetchVars
  /\ mounted /\ fn = "none" /\ udError # Null
  /\ udError' = Null
  /\ UNCHANGED <<usersTable, sessionsTable, udUsers, udLoading, mounted, fn, filters,
                 phase, allUsers, allActiveSessions, offset, hasMore, requests, ret>>

(***************************************************************************)
(* Session detail: the remote store's answers                              *)
(***************************************************************************)
\* session ids a caller may ask for; the store holds a subset of them
SessionIds == {"s1", "s2"}

\* no page path (event.page_path is null)
NoPath == ""

PagePathValues == {NoPath, "/a", "/b"}

\* the session's events in the store: up to MaxEvents of them
MaxEvents == 2

\* data of a single-row answer that carries no row (data: null)
NoRow == [id |-> Null]

\* an answer { data, error } of the store
Answer(has, d, e) == [hasData |-> has, data |-> d, error |-> e]

\* a field of a returned row; a column the select list does not name is undefined
Field(row, name) == IF name \in DOMAIN row THEN row[name] ELSE Undefined

\* .from('user_sessions').select('id, started_at, users (...)').eq('id', sid).single()
\* a missing row is answered with error code PGRST116 and no data; any request
\* may also fail remotely
SessionAnswers(sid) ==
  LET rows == {r \in dbSessions : r.id = sid}
  IN  {Answer(FALSE, NoRow, "remote")} \cup
      (IF rows = {}
       THEN {Answer(FALSE, NoRow, "PGRST116")}
       ELSE {Answer(TRUE, [id |-> r.id, started_at |-> r.started_at,
                           users |-> [id |-> r.user_id]], Null) : r \in rows})

\* .from('user_analytics_events').select('*').eq('session_id', sid).order('created_at', asc)
EventsAnswers(sid) ==
  { Answer(FALSE, <<>>, "remote"),
    Answer(TRUE, SelectSeq(dbEvents, LAMBDA e : e.session_id = sid), Null) }

\* .from('subscriptions').select(...).eq('user_id', uid).eq('status', 'active').single()
\* zero rows or several rows are answered with PGRST116
SubscriptionAnswers(uid) ==
  LET rows == SelectSeq(dbSubscriptions, LAMBDA r : r.user_id = uid /\ r.status = "active")
  IN  {Answer(FALSE, NoRow, "remote")} \cup
      (IF Len(rows) = 1
       THEN {Answer(TRUE, rows[1], Null)}
       ELSE {Answer(FALSE, NoRow, "PGRST116")})

(***************************************************************************)
(* fetchUserSessionEvents                                                  *)
(***************************************************************************)
\* mutant of SessionErrorThrows: a missing row is not thrown
SessionErrorThrowsButNotFound(ans) == ans.error # Null /\ ans.error # "PGRST116"

\* if (error) handleSupabaseError(error, ...): every error of the session lookup is thrown
SessionErrorThrows(ans) == ans.error # Null

\* mutant of EventsErrorThrows: the error of the event query is thrown
EventsErrorThrowsToo(ans) == ans.error # Null

\* if (eventsError) console.error(...): logged, never thrown
EventsErrorThrows(ans) == FALSE

\* mutant of SubscriptionErrorThrows: errors other than PGRST116 are thrown
SubscriptionErrorThrowsRemote(ans) == ans.error # Null /\ ans.error # "PGRST116"

\* if (subError && subError.code !== 'PGRST116') console.error(...): logged, never thrown
SubscriptionErrorThrows(ans) == FALSE

Front(s) == SubSeq(s, 1, Len(s) - 1)

\* pageVisitMap after events.forEach: one entry per page path, in first-seen order
RECURSIVE PageVisitMap(_)
PageVisitMap(events) ==
  IF events = <<>> THEN <<>>
  ELSE LET m == PageVisitMap(Front(events))
           e == events[Len(events)]
       IN  IF e.page_path = NoPath THEN m
           ELSE IF \A i \in 1..Len(m) : m[i].page_path # e.page_path
           THEN Append(m, [page_path |-> e.page_path, count |-> 1,
                           lastVisited |-> e.created_at])
           ELSE [i \in 1..Len(m) |->
                   IF m[i].page_path = e.page_path
                   THEN [m[i] EXCEPT !.count = @ + 1,
                                     !.lastVisited = IF e.created_at > @ THEN e.created_at ELSE @]
                   ELSE m[i]]

\* mutant of PageVisits: every page counts as visited once
PageVisitsUncounted(events) ==
  LET m == PageVisitMap(events)
  IN  [i \in 1..Len(m) |-> [page_path |-> m[i].page_path, visit_count |-> 1,
                            last_visited |-> m[i].lastVisited]]

\* Object.entries(pageVisitMap).map(...)
PageVisits(events) ==
  LET m == PageVisitMap(events)
  IN  [i \in 1..Len(m) |-> [page_path |-> m[i].page_path, visit_count |-> m[i].count,
                            last_visited |-> m[i].lastVisited]]

\* sort((a, b) => b[f] - a[f]): stable, descending by field f
RECURSIVE SortDescBy(_, _)
SortDescBy(s, f) ==
  IF Len(s) <= 1 THEN s
  ELSE LET sorted == SortDescBy(Front(s), f)
           x == s[Len(s)]
           k == Cardinality({i \in 1..Len(sorted) : sorted[i][f] >= x[f]})
       IN  SubSeq(sorted, 1, k) \o <<x>> \o SubSeq(sorted, k + 1, Len(sorted))

NoDuration == [minutes |-> -1, seconds |-> -1]

\* if (data.ended_at) { ... sessionDuration = `${minutes}m ${seconds}s` }
SessionDuration(data) ==
  IF Field(data, "ended_at") = Undefined THEN NoDuration
  ELSE LET durationMs == Field(data, "ended_at") - data.started_at
       IN  [minutes |-> durationMs \div 60000, seconds |-> (durationMs % 60000) \div 1000]

NoSubscription == [plan_id |-> Null, status |-> Null]

\* selectedSession = null
NullSession == [sessionId |-> Null]

\* eventsData || []
EventsOrEmpty(ans) == IF ans.hasData THEN ans.data ELSE <<>>

\* the SessionWithEvents object built at the end of fetchUserSessionEvents
SessionWithEvents(data, events, subAns) ==
  [sessionId |-> data.id,
   user |-> data.users,
   events |-> events,
   createdAt |-> data.started_at,
   subscription |-> IF subAns.hasData
                    THEN [plan_id |-> subAns.data.plan_id, status |-> subAns.data.status]
                    ELSE NoSubscription,
   pageVisits |-> SortDescBy(PageVisits(events), "visit_count"),
   sessionStats |-> [total_events |-> Len(events),
                     session_duration |-> SessionDuration(data),
                     unique_pages |-> Len(PageVisitMap(events))]]

(***************************************************************************)
(* useAnalytics: openSessionDrawer / closeSessionDrawer                    *)
(***************************************************************************)
NoCall == [sid |-> Null, sessionError |-> Null, eventsError |-> Null, subError |-> Null,
           subAsked |-> FALSE, outcome |-> "none", errorSet |-> Null, result |-> NullSession]

Remove(s, i) == SubSeq(s, 1, i - 1) \o SubSeq(s, i + 1, Len(s))

\* setIsDrawerOpen(true); setDrawerLoading(true); setDrawerError(null);
\* setSelectedSession(null); then the session lookup is sent
openSessionDrawer(sid) ==
  /\ UNCHANGED notDrawerVars
  /\ isDrawerOpen' = TRUE
  /\ drawerLoading' = TRUE
  /\ drawerError' = Null
  /\ selectedSession' = NullSession
  /\ drawerCalls' = Append(drawerCalls,
                           [sid |-> sid, pc |-> "session", data |-> NoRow,
                            events |-> <<>>, eventsError |-> Null])
  /\ lastOpened' = sid
  /\ UNCHANGED <<dbSessions, dbEvents, dbSubscriptions, lastCall>>

\* fetchUserSessionEvents threw: catch { setDrawerError('Failed to fetch session details') }
\* finally { setDrawerLoading(false) }
DrawerFails(i, info) ==
  /\ UNCHANGED notDrawerVars
  /\ drawerError' = "Failed to fetch session details"
  /\ drawerLoading' = FALSE
  /\ drawerCalls' = Remove(drawerCalls, i)
  /\ lastCall' = [info EXCEPT !.outcome = "failed",
                              !.errorSet = "Failed to fetch session details"]
  /\ UNCHANGED <<dbSessions, dbEvents, dbSubscriptions, lastOpened, isDrawerOpen, selectedSession>>

\* the session lookup answers
SessionLookupDone(i) ==
  /\ UNCHANGED notDrawerVars
  /\ i \in 1..Len(drawerCalls)
  /\ drawerCalls[i].pc = "session"
  /\ \E ans \in SessionAnswers(drawerCalls[i].sid) :
       LET info == [NoCall EXCEPT !.sid = drawerCalls[i].sid, !.sessionError = ans.error]
       IN  IF SessionErrorThrows(ans)
           THEN DrawerFails(i, info)
           ELSE IF ~ans.hasData
           THEN \* return null: else { setDrawerError("Session data not found.") }
                /\ drawerError' = "Session data not found."
                /\ drawerLoading' = FALSE
                /\ drawerCalls' = Remove(drawerCalls, i)
                /\ lastCall' = [info EXCEPT !.outcome = "notfound",
                                            !.errorSet = "Session data not found."]
                /\ UNCHANGED <<dbSessions, dbEvents, dbSubscriptions, lastOpened, isDrawerOpen,
                               selectedSession>>
           ELSE \* the event query is sent
                /\ drawerCalls' = [drawerCalls EXCEPT ![i].pc = "events", ![i].data = ans.data]
                /\ UNCHANGED <<dbSessions, dbEvents, dbSubscriptions, lastOpened, isDrawerOpen,
                               selectedSession, drawerLoading, drawerError, lastCall>>

\* the event query answers
EventsLookupDone(i) ==
  /\ UNCHANGED notDrawerVars
  /\ i \in 1..Len(drawerCalls)
  /\ drawerCalls[i].pc = "events"
  /\ \E ans \in EventsAnswers(drawerCalls[i].sid) :
       IF EventsErrorThrows(ans)
       THEN DrawerFails(i, [NoCall EXCEPT !.sid = drawerCalls[i].sid,
                                          !.eventsError = ans.error])
       ELSE \* the subscription lookup is sent
            /\ drawerCalls' = [drawerCalls EXCEPT ![i].pc = "subscription",
                                                  ![i].events = EventsOrEmpty(ans),
                                                  ![i].eventsError = ans.error]
            /\ UNCHANGED <<dbSessions, dbEvents, dbSubscriptions, lastOpened, isDrawerOpen,
                           selectedSession, drawerLoading, drawerError, lastCall>>

\* the subscription lookup answers; the detail object is built and shown
SubscriptionLookupDone(i) ==
  /\ UNCHANGED notDrawerVars
  /\ i \in 1..Len(drawerCalls)
  /\ drawerCalls[i].pc = "subscription"
  /\ \E ans \in SubscriptionAnswers(drawerCalls[i].data.users.id) :
       LET c == drawerCalls[i]
           info == [NoCall EXCEPT !.sid = c.sid, !.eventsError = c.eventsError,
                                  !.subError = ans.error, !.subAsked = TRUE]
           detail == SessionWithEvents(c.data, c.events, ans)
       IN  IF SubscriptionErrorThrows(ans)
           THEN DrawerFails(i, info)
           ELSE \* if (sessionData) setSelectedSession(sessionData); finally ...
                /\ selectedSession' = detail
                /\ drawerLoading' = FALSE
                /\ drawerCalls' = Remove(drawerCalls, i)
                /\ lastCall' = [info EXCEPT !.outcome = "detail", !.result = detail]
                /\ UNCHANGED <<dbSessions, dbEvents, dbSubscriptions, lastOpened, isDrawerOpen,
                               drawerError>>

\* setIsDrawerOpen(false); setSelectedSession(null); setDrawerError(null)
closeSessionDrawer ==
  /\ UNCHANGED notDrawerVars
  /\ isDrawerOpen
  /\ isDrawerOpen' = FALSE
  /\ selectedSession' = NullSession
  /\ drawerError' = Null
  /\ UNCHANGED <<dbSessions, dbEvents, dbSubscriptions, lastOpened, drawerLoading, drawerCalls, lastCall>>

(***************************************************************************)
(* useAnalytics: date filters and the queries they produce                 *)
(***************************************************************************)
Sections == {"overview", "users", "events", "traffic", "pages"}

FilterSections == {"users", "events", "traffic", "pages"}

\* the clock of getFilterDates: today, and the lengths of a day and of a month
Clock == [now |-> 100, day |-> 1, month |-> 30]

\* getFilterDates(filterType, customRange); a null or empty date is Undefined
getFilterDates(f) ==
  CASE f.type = "lastMonth" -> [startDate |-> Clock.now - Clock.month, endDate |-> Clock.now]
    [] f.type = "custom"    -> [startDate |-> f.startDate, endDate |-> f.endDate]
    [] OTHER                -> [startDate |-> Clock.now - Clock.day, endDate |-> Clock.now]

Unrestricted == [restricted |-> FALSE, gte |-> Undefined, lte |-> Undefined]

\* if (startDate && endDate) query = query.gte('created_at', startDate).lte('created_at', endDate)
\* (fetchUsers, fetchTrafficSources, fetchPageAnalytics)
GuardedQuery(d) ==
  IF d.startDate # Undefined /\ d.endDate # Undefined
  THEN [restricted |-> TRUE, gte |-> d.startDate, lte |-> d.endDate]
  ELSE Unrestricted

\* fetchEventCountsByType({ start, end }): if (dateRange) tests the object, which
\* fetchEventAnalytics always passes, so .gte / .lte are always applied
EventCountsQuery(d) == [restricted |-> TRUE, gte |-> d.startDate, lte |-> d.endDate]

\* the created_at conditions of the query a section issues under filter f
SectionQuery(sec, f) ==
  IF sec = "events" THEN EventCountsQuery(getFilterDates(f)) ELSE GuardedQuery(getFilterDates(f))

\* the store rejects a created_at condition whose bound is not a timestamp
QueryRejected(q) == q.restricted /\ (q.gte = Undefined \/ q.lte = Undefined)

\* rows of a table that satisfy the query's created_at conditions
QueryRows(table, q) ==
  IF ~q.restricted THEN table
  ELSE SelectSeq(table, LAMBDA r : r.created_at >= q.gte /\ r.created_at <= q.lte)

\* the answers { data, error } the store can give to a query: a remote failure
\* (while the failure budget lasts), a rejection, or the matching rows
MaxFailures == 1

DashAnswers(table, q) ==
  (IF failures < MaxFailures THEN {[ok |-> FALSE, remote |-> TRUE, rows |-> <<>>]} ELSE {}) \cup
  (IF QueryRejected(q) THEN {[ok |-> FALSE, remote |-> FALSE, rows |-> <<>>]}
   ELSE {[ok |-> TRUE, remote |-> FALSE, rows |-> QueryRows(table, q)]})

(***************************************************************************)
(* useAnalytics: aggregation of the fetched rows                           *)
(***************************************************************************)
\* mutant of EventCountsByType: a type seen again is not counted again
RECURSIVE EventCountsUncounted(_)
EventCountsUncounted(rows) ==
  IF rows = <<>> THEN <<>>
  ELSE LET m == EventCountsUncounted(Front(rows))
           e == rows[Len(rows)]
       IN  IF \A i \in 1..Len(m) : m[i].eventType # e.event_type
           THEN Append(m, [eventType |-> e.event_type, count |-> 1])
           ELSE m

\* eventCounts after the forEach, as Object.entries lists it: one record per event
\* type, in first-seen order; the records are returned in that order
RECURSIVE EventCountsByType(_)
EventCountsByType(rows) ==
  IF rows = <<>> THEN <<>>
  ELSE LET m == EventCountsByType(Front(rows))
           e == rows[Len(rows)]
       IN  IF \A i \in 1..Len(m) : m[i].eventType # e.event_type
           THEN Append(m, [eventType |-> e.event_type, count |-> 1])
           ELSE [i \in 1..Len(m) |->
                   IF m[i].eventType = e.event_type THEN [m[i] EXCEPT !.count = @ + 1]
                   ELSE m[i]]

\* `${event.utm_source}-${event.utm_medium || ''}-${event.utm_campaign || ''}`
\* (strings are sequences of characters; a null medium or campaign is <<>>)
SourceKey(e) == e.utm_source \o <<"-">> \o e.utm_medium \o <<"-">> \o e.utm_campaign

\* sourceMap after the forEach, in first-seen order of the keys
RECURSIVE SourceMap(_)
SourceMap(rows) ==
  IF rows = <<>> THEN <<>>
  ELSE LET m == SourceMap(Front(rows))
           e == rows[Len(rows)]
       IN  IF \A i \in 1..Len(m) : m[i].key # SourceKey(e)
           THEN Append(m, [key |-> SourceKey(e), utm_source |-> e.utm_source,
                           utm_medium |-> e.utm_medium, utm_campaign |-> e.utm_campaign,
                           count |-> 1])
           ELSE [i \in 1..Len(m) |->
                   IF m[i].key = SourceKey(e) THEN [m[i] EXCEPT !.count = @ + 1] ELSE m[i]]

\* Object.values(sourceMap).sort((a, b) => b.count - a.count)
TrafficSourcesOf(rows) ==
  LET m == SourceMap(rows)
  IN  SortDescBy([i \in 1..Len(m) |->
                    [utm_source |-> m[i].utm_source, utm_medium |-> m[i].utm_medium,
                     utm_campaign |-> m[i].utm_campaign, count |-> m[i].count]], "count")

\* pageMap after the forEach, in first-seen order of the paths
RECURSIVE PageMap(_)
PageMap(rows) ==
  IF rows = <<>> THEN <<>>
  ELSE LET m == PageMap(Front(rows))
           e == rows[Len(rows)]
       IN  IF \A i \in 1..Len(m) : m[i].path # e.page_path
           THEN Append(m, [path |-> e.page_path, visits |-> 1, users |-> {e.user_id}])
           ELSE [i \in 1..Len(m) |->
                   IF m[i].path = e.page_path
                   THEN [m[i] EXCEPT !.visits = @ + 1, !.users = @ \cup {e.user_id}]
                   ELSE m[i]]

\* Object.entries(pageMap).map(...).sort((a, b) => b.visits - a.visits)
PageAnalyticsOf(rows) ==
  LET m == PageMap(rows)
  IN  SortDescBy([i \in 1..Len(m) |->
                    [page_path |-> m[i].path, visits |-> m[i].visits,
                     unique_users |-> Cardinality(m[i].users)]], "visits")

\* .not('utm_source', 'is', null) / .not('page_path', 'is', null)
WithSource(rows) == SelectSeq(rows, LAMBDA e : e.utm_source # <<>>)

WithPage(rows) == SelectSeq(rows, LAMBDA e : e.page_path # NoPath)

\* the object fetchOverview passes to setOverview
OverviewOf(usersData, activeUsersData) ==
  [totalUsers |-> Len(usersData),
   activeUsers |-> Cardinality({activeUsersData[i].user_id : i \in 1..Len(activeUsersData)}),
   subscriptionBreakdown |->
     [active |-> Len(SelectSeq(usersData, LAMBDA u : u.has_active_subscription)),
      inactive |-> Len(SelectSeq(usersData, LAMBDA u : ~u.has_active_subscription))],
   userTypeBreakdown |->
     [standard |-> Len(SelectSeq(usersData, LAMBDA u : u.user_type = "standard")),
      premium |-> Len(SelectSeq(usersData, LAMBDA u : u.user_type = "premium"))]]

\* overview = null
NoOverview == [totalUsers |-> -1]

\* what a section's successful fetch writes into its slot
SectionResult(sec, q) ==
  CASE sec = "users"   -> QueryRows(dashUsers, q)
    [] sec = "events"  -> EventCountsByType(QueryRows(dashEvents, q))
    [] sec = "traffic" -> TrafficSourcesOf(QueryRows(WithSource(dashEvents), q))
    [] sec = "pages"   -> PageAnalyticsOf(QueryRows(WithPage(dashEvents), q))

(***************************************************************************)
(* useAnalytics: fetchAllData, refetch, the date filter setters, the five  *)
(* fetch functions                                                         *)
(***************************************************************************)
\* invocations of fetchAllData / refetch explored in one behaviour
MaxStarted == 2

\* the fetch functions Promise.all starts in fetchAllData and in refetch
FetchAllDataCalls == {"overview", "users", "events", "traffic", "pages"}

\* the invocations whose fetches are all done are dropped from the list
StillInFlight(bs) == SelectSeq(bs, LAMBDA b : b.pending # {})

\* setLoading(true); setError(null); the five fetches are started, each building its
\* query from the filter state f of this render (fetchEventAnalytics sets the same
\* two flags itself before its request)
StartBatch(cause, f) ==
  /\ started < MaxStarted
  /\ started' = started + 1
  /\ loading' = TRUE
  /\ error' = Null
  /\ batches' = Append(batches,
                       [id |-> started + 1, cause |-> cause, issued |-> FetchAllDataCalls,
                        pending |-> FetchAllDataCalls,
                        ovStep |-> 1, ovUsers |-> <<>>,
                        q |-> [sec \in FilterSections |-> SectionQuery(sec, f[sec])]])
  /\ latest' = [sec \in FilterSections |->
                  [q |-> SectionQuery(sec, f[sec]), status |-> "pending"]]
  /\ UNCHANGED <<dashUsers, dashSessions, dashEvents, overview, users, eventAnalytics,
                 trafficSources, pageAnalytics, failures>>

\* useEffect(() => { fetchAllData(); }, [fetchUsers, ...]) on the first render
AnalyticsMountEffect ==
  /\ UNCHANGED notDashVars
  /\ ~analyticsMounted
  /\ analyticsMounted' = TRUE
  /\ UNCHANGED dateFilters
  /\ StartBatch("mount", dateFilters)

\* setXFilterType(filter); setCustomXDateRange(filter === 'custom' && customRange ?
\* customRange : { startDate: null, endDate: null })
NewFilter(input) ==
  IF input.filter = "custom" /\ input.hasRange
  THEN [type |-> "custom", startDate |-> input.startDate, endDate |-> input.endDate]
  ELSE [type |-> input.filter, startDate |-> Undefined, endDate |-> Undefined]

\* setUserDateFilter / setEventDateFilter / setTrafficDateFilter / setPageDateFilter:
\* the setter stores a new range object, so the useCallback of the section's fetch
\* function yields a new function and the effect, which depends on it, runs
\* fetchAllData again
SetDateFilter(sec, input) ==
  /\ UNCHANGED notDashVars
  /\ analyticsMounted
  /\ dateFilters' = [dateFilters EXCEPT ![sec] = NewFilter(input)]
  /\ UNCHANGED analyticsMounted
  /\ StartBatch(sec, dateFilters')

\* refetch: setLoading(true); setError(null); Promise.all([...]).finally(...)
refetch ==
  /\ UNCHANGED notDashVars
  /\ analyticsMounted
  /\ UNCHANGED <<dateFilters, analyticsMounted>>
  /\ StartBatch("refetch", dateFilters)

\* the message of each fetch function's catch block
FetchErrorMessage(sec) ==
  CASE sec = "overview" -> "Failed to fetch overview data"
    [] sec = "users"    -> "Failed to fetch users data"
    [] sec = "events"   -> "Failed to fetch event analytics"
    [] sec = "traffic"  -> "Failed to fetch traffic sources"
    [] sec = "pages"    -> "Failed to fetch page analytics"

\* setLoading(false) runs in the finally of fetchEventAnalytics, and in the finally
\* of fetchAllData / refetch once no fetch of the invocation is left
\* mutant of ClearsLoading: no finally block resets loading
ClearsLoadingNever(sec, left) == FALSE

ClearsLoading(sec, left) == sec = "events" \/ left = {}

\* the table a section's request reads
SectionTable(sec) ==
  CASE sec = "users"   -> dashUsers
    [] sec = "events"  -> dashEvents
    [] sec = "traffic" -> WithSource(dashEvents)
    [] sec = "pages"   -> WithPage(dashEvents)

\* mutant of PendingAfter: a fetch that failed is issued again
PendingAfterRetry(pending, sec, ans) == IF ans.ok THEN pending \ {sec} ELSE pending

\* the fetches of an invocation still in flight once that of section sec has ended:
\* neither the try nor the catch block of a fetch function issues a request again
PendingAfter(pending, sec, ans) == pending \ {sec}

\* the fetch of section sec in invocation b ends: its slot or the error is set
FinishFetch(b, sec, ans, value) ==
  LET left == PendingAfter(batches[b].pending, sec, ans)
  IN  /\ batches' = StillInFlight([batches EXCEPT ![b].pending = left])
      /\ loading' = (IF ClearsLoading(sec, left) THEN FALSE ELSE loading)
      /\ error' = (IF ans.ok THEN error ELSE FetchErrorMessage(sec))
      /\ failures' = (IF ans.remote THEN failures + 1 ELSE failures)
      /\ overview' = (IF ans.ok /\ sec = "overview" THEN value ELSE overview)
      /\ users' = (IF ans.ok /\ sec = "users" THEN value ELSE users)
      /\ eventAnalytics' = (IF ans.ok /\ sec = "events" THEN value ELSE eventAnalytics)
      /\ trafficSources' = (IF ans.ok /\ sec = "traffic" THEN value ELSE trafficSources)
      /\ pageAnalytics' = (IF ans.ok /\ sec = "pages" THEN value ELSE pageAnalytics)
      /\ latest' = (IF batches[b].id = started /\ sec \in FilterSections
                    THEN [latest EXCEPT ![sec].status = IF ans.ok THEN "ok" ELSE "failed"]
                    ELSE latest)
      /\ UNCHANGED <<dashUsers, dashSessions, dashEvents, dateFilters, analyticsMounted,
                       started>>

\* fetchUsers / fetchEventAnalytics / fetchTrafficSources / fetchPageAnalytics: the
\* answer to the section's request arrives
FetchResponds(b, sec) ==
  /\ UNCHANGED notDashVars
  /\ b \in 1..Len(batches)
  /\ sec \in batches[b].pending
  /\ \E ans \in DashAnswers(SectionTable(sec), batches[b].q[sec]) :
       FinishFetch(b, sec, ans,
                   IF ans.ok THEN SectionResult(sec, batches[b].q[sec]) ELSE <<>>)

fetchUsers == \E b \in 1..MaxStarted : FetchResponds(b, "users")

fetchEventAnalytics == \E b \in 1..MaxStarted : FetchResponds(b, "events")

fetchTrafficSources == \E b \in 1..MaxStarted : FetchResponds(b, "traffic")

fetchPageAnalytics == \E b \in 1..MaxStarted : FetchResponds(b, "pages")

\* fetchOverview, first request (users) answered: on success the second request
\* (active sessions) is sent
fetchOverviewUsers ==
  /\ UNCHANGED notDashVars
  /\ \E b \in 1..Len(batches) :
       /\ "overview" \in batches[b].pending
       /\ batches[b].ovStep = 1
       /\ \E ans \in DashAnswers(dashUsers, Unrestricted) :
            IF ans.ok
            THEN /\ batches' = [batches EXCEPT ![b].ovStep = 2, ![b].ovUsers = ans.rows]
                 /\ UNCHANGED <<dashUsers, dashSessions, dashEvents, overview, users,
                                eventAnalytics, trafficSources, pageAnalytics, loading,
                                error, dateFilters, analyticsMounted, latest, failures,
                                started>>
            ELSE FinishFetch(b, "overview", ans, NoOverview)

\* fetchOverview, second request answered: setOverview({...})
fetchOverviewSessions ==
  /\ UNCHANGED notDashVars
  /\ \E b \in 1..Len(batches) :
       /\ "overview" \in batches[b].pending
       /\ batches[b].ovStep = 2
       /\ \E ans \in DashAnswers(SelectSeq(dashSessions, LAMBDA r : r.is_active), Unrestricted) :
            FinishFetch(b, "overview", ans,
                        IF ans.ok THEN OverviewOf(batches[b].ovUsers, ans.rows)
                        ELSE NoOverview)

(***************************************************************************)
(* dataFetchers: strings the aggregations build                            *)
(***************************************************************************)
\* strings are sequences of characters; null is <<>>
DigitChars == <<"0", "1", "2", "3", "4", "5", "6", "7", "8", "9">>

\* String(n) for a natural number
RECURSIVE NatToString(_)
NatToString(n) ==
  IF n < 10 THEN <<DigitChars[n + 1]>>
  ELSE NatToString(n \div 10) \o <<DigitChars[(n % 10) + 1]>>

\* (n / d).toFixed(1): n / 0 is Infinity (NaN for 0 / 0), which toFixed prints by name;
\* otherwise the quotient rounded to one decimal (ties, exact for the divisors used
\* here, go up)
ToFixed1(n, d) ==
  IF d = 0
  THEN (IF n = 0 THEN <<"N", "a", "N">> ELSE <<"I", "n", "f", "i", "n", "i", "t", "y">>)
  ELSE LET tenths == (20 * n + d) \div (2 * d)
       IN  NatToString(tenths \div 10) \o <<".">> \o NatToString(tenths % 10)

\* the literal '0'
ZeroString == <<"0">>

\* `${x}`: null is printed as "null"
TemplateString(x) == IF x = <<>> THEN <<"n", "u", "l", "l">> ELSE x

\* the columns of a row that the select list names
Project(row, cols) == [c \in cols \cap DOMAIN row |-> row[c]]

\* [...new Set(s)]: the distinct values in first-seen order
RECURSIVE DistinctInOrder(_)
DistinctInOrder(s) ==
  IF s = <<>> THEN <<>>
  ELSE LET d == DistinctInOrder(Front(s))
       IN  IF \E i \in 1..Len(d) : d[i] = s[Len(s)] THEN d ELSE Append(d, s[Len(s)])

(***************************************************************************)
(* dataFetchers: fetchCampaignAnalytics, fetchPagePerformance,             *)
(* fetchRealtimeAnalytics                                                  *)
(***************************************************************************)
\* timestamps of this part are minutes; Date.now() of the call
AggNow == 3000

\* new Date(created_at).toISOString().split('T')[0]: the day of a timestamp
MinutesPerDay == 1440

DayOf(created_at) == created_at \div MinutesPerDay

\* `${event.utm_campaign}-${event.utm_source}-${event.utm_medium}`
CampaignKey(e) ==
  TemplateString(e.utm_campaign) \o <<"-">> \o TemplateString(e.utm_source) \o <<"-">> \o
  TemplateString(e.utm_medium)

\* campaignMap after the forEach, in first-seen order of the keys
RECURSIVE CampaignMap(_)
CampaignMap(rows) ==
  IF rows = <<>> THEN <<>>
  ELSE LET m == CampaignMap(Front(rows))
           e == rows[Len(rows)]
       IN  IF \A i \in 1..Len(m) : m[i].key # CampaignKey(e)
           THEN Append(m, [key |-> CampaignKey(e), campaign |-> e.utm_campaign,
                           source |-> e.utm_source,
                           medium |-> IF e.utm_medium = <<>> THEN <<"N", "/", "A">>
                                      ELSE e.utm_medium,
                           events |-> 1, uniqueDays |-> {DayOf(e.created_at)}])
           ELSE [i \in 1..Len(m) |->
                   IF m[i].key = CampaignKey(e)
                   THEN [m[i] EXCEPT !.events = @ + 1,
                                     !.uniqueDays = @ \cup {DayOf(e.created_at)}]
                   ELSE m[i]]

\* Object.values(campaignMap).map(...).sort((a, b) => b.totalEvents - a.totalEvents)
CampaignAnalyticsOf(rows) ==
  LET m == CampaignMap(rows)
  IN  SortDescBy([i \in 1..Len(m) |->
                    [campaign |-> m[i].campaign, source |-> m[i].source,
                     medium |-> m[i].medium, totalEvents |-> m[i].events,
                     activeDays |-> Cardinality(m[i].uniqueDays),
                     avgEventsPerDay |->
                       IF Cardinality(m[i].uniqueDays) > 0
                       THEN ToFixed1(m[i].events, Cardinality(m[i].uniqueDays))
                       ELSE ZeroString]], "totalEvents")

\* .select('page_path, page_section, user_id, created_at, event_data')
PagePerformanceColumns == {"page_path", "page_section", "user_id", "created_at", "event_data"}

\* const path = event.event_path
PerformancePath(event) == Field(event, "event_path")

\* pageMap of fetchPagePerformance after the forEach, in first-seen order of the keys
RECURSIVE PerformanceMap(_)
PerformanceMap(rows) ==
  IF rows = <<>> THEN <<>>
  ELSE LET m == PerformanceMap(Front(rows))
           e == rows[Len(rows)]
       IN  IF \A i \in 1..Len(m) : m[i].path # PerformancePath(e)
           THEN Append(m, [path |-> PerformancePath(e), visits |-> 1,
                           uniqueUsers |-> {e.user_id}])
           ELSE [i \in 1..Len(m) |->
                   IF m[i].path = PerformancePath(e)
                   THEN [m[i] EXCEPT !.visits = @ + 1, !.uniqueUsers = @ \cup {e.user_id}]
                   ELSE m[i]]

\* Object.values(pageMap).map(...).sort((a, b) => b.visits - a.visits)
PagePerformanceOf(rows) ==
  LET m == PerformanceMap(rows)
  IN  SortDescBy([i \in 1..Len(m) |->
                    [path |-> m[i].path, visits |-> m[i].visits,
                     uniqueUsers |-> Cardinality(m[i].uniqueUsers),
                     avgVisitsPerUser |->
                       IF Cardinality(m[i].uniqueUsers) > 0
                       THEN ToFixed1(m[i].visits, Cardinality(m[i].uniqueUsers))
                       ELSE ZeroString]], "visits")

\* .order('created_at', { ascending: true }): ascending by field f, stable
RECURSIVE SortAscBy(_, _)
SortAscBy(s, f) ==
  IF Len(s) <= 1 THEN s
  ELSE LET sorted == SortAscBy(Front(s), f)
           x == s[Len(s)]
           k == Cardinality({i \in 1..Len(sorted) : sorted[i][f] <= x[f]})
       IN  SubSeq(sorted, 1, k) \o <<x>> \o SubSeq(sorted, k + 1, Len(sorted))

\* .select('user_id, page_path, event_action, created_at')
JourneyColumns == {"user_id", "page_path", "event_action", "created_at"}

\* { path: event.event_path, action: event.event_action, timestamp: event.created_at };
\* a property whose value is undefined is left out of the record
JourneyStep(event) ==
  IF "event_path" \in DOMAIN event
  THEN [path |-> event.event_path, action |-> event.event_action,
        timestamp |-> event.created_at]
  ELSE [action |-> event.event_action, timestamp |-> event.created_at]

\* userJourneys after the forEach, in first-seen order of the user ids
RECURSIVE JourneyMap(_)
JourneyMap(rows) ==
  IF rows = <<>> THEN <<>>
  ELSE LET m == JourneyMap(Front(rows))
           e == rows[Len(rows)]
       IN  IF \A i \in 1..Len(m) : m[i].userId # e.user_id
           THEN Append(m, [userId |-> e.user_id, journey |-> <<JourneyStep(e)>>])
           ELSE [i \in 1..Len(m) |->
                   IF m[i].userId = e.user_id
                   THEN [m[i] EXCEPT !.journey = Append(@, JourneyStep(e))]
                   ELSE m[i]]

\* Object.entries(userJourneys).map(([userId, journey]) => ({ ... }))
UserJourneysOf(rows) ==
  LET m == JourneyMap(rows)
  IN  [i \in 1..Len(m) |->
         [userId |-> m[i].userId, journey |-> m[i].journey,
          totalSteps |-> Len(m[i].journey),
          uniquePages |-> Cardinality({Field(m[i].journey[k], "path") :
                                         k \in 1..Len(m[i].journey)})]]

\* events.length > 0 ? (events.length / minutesBack).toFixed(1) : '0'
EventsPerMinute(n, minutesBack) == IF n > 0 THEN ToFixed1(n, minutesBack) ELSE ZeroString

\* mutant of RealtimeOf: the events are counted as users
RealtimeOfEveryEventAUser(events, minutesBack) ==
  [recentEvents |-> events,
   totalEvents |-> Len(events),
   uniqueActiveUsers |-> Len(events),
   eventTypes |-> DistinctInOrder([i \in 1..Len(events) |-> events[i].event_type]),
   eventsPerMinute |-> EventsPerMinute(Len(events), minutesBack)]

\* the object fetchRealtimeAnalytics returns for the events of the window
RealtimeOf(events, minutesBack) ==
  [recentEvents |-> events,
   totalEvents |-> Len(events),
   uniqueActiveUsers |-> Cardinality({events[i].user_id : i \in 1..Len(events)}),
   eventTypes |-> DistinctInOrder([i \in 1..Len(events) |-> events[i].event_type]),
   eventsPerMinute |-> EventsPerMinute(Len(events), minutesBack)]

SessionsFixture ==
  << [user_id |-> 1, is_active |-> TRUE],
     [user_id |-> 1, is_active |-> TRUE],
     [user_id |-> 2, is_active |-> FALSE],
     [user_id |-> fetchSize, is_active |-> TRUE] >>

\* the hook after its first render, over a store of n users
InitFetch ==
  /\ \E n \in RowCounts : usersTable = [i \in 1..n |-> n + 1 - i]
  /\ sessionsTable = SessionsFixture
  /\ udUsers = <<>>
  /\ udLoading = FALSE
  /\ udError = Null
  /\ mounted = FALSE
  /\ fn = "none"
  /\ filters = NoFilters
  /\ phase = "users"
  /\ allUsers = <<>>
  /\ allActiveSessions = <<>>
  /\ offset = 0
  /\ hasMore = TRUE
  /\ requests = <<>>
  /\ ret = NoReturn

NextFetch ==
  \/ MountEffect
  \/ fetchAllUsers
  \/ fetchUsersWithFilters
  \/ fetchUsersByDateRange
  \/ fetchUserStatistics
  \/ PageSuccess
  \/ PageError
  \/ clearError

\* event lists of one session, in created_at order (created_at = position)
RECURSIVE EventLists(_)
EventLists(n) ==
  IF n = 0 THEN {<<>>}
  ELSE LET shorter == EventLists(n - 1)
       IN  shorter \cup
           { Append(l, [session_id |-> "s1", page_path |-> p, created_at |-> Len(l) + 1]) :
               l \in {x \in shorter : Len(x) = n - 1}, p \in PagePathValues }

SubscriptionFixtures ==
  { <<>>,
    << [user_id |-> "u1", status |-> "active", plan_id |-> "pro"] >>,
    << [user_id |-> "u1", status |-> "canceled", plan_id |-> "pro"] >>,
    << [user_id |-> "u1", status |-> "active", plan_id |-> "pro"],
       [user_id |-> "u1", status |-> "active", plan_id |-> "basic"] >> }

\* the drawer before any session was opened
InitDrawerState ==
  /\ isDrawerOpen = FALSE
  /\ selectedSession = NullSession
  /\ drawerLoading = FALSE
  /\ drawerError = Null
  /\ drawerCalls = <<>>
  /\ lastCall = NoCall
  /\ lastOpened = Null

\* a store with session s1 (open or ended) of user u1; s2 does not exist
InitDetail ==
  /\ \E ended \in {Undefined, 125000} :
       dbSessions = {[id |-> "s1", user_id |-> "u1", started_at |-> 60000, ended_at |-> ended]}
  /\ dbEvents \in EventLists(MaxEvents)
  /\ dbSubscriptions \in SubscriptionFixtures
  /\ InitDrawerState

DrawerParked ==
  /\ dbSessions = {}
  /\ dbEvents = <<>>
  /\ dbSubscriptions = <<>>
  /\ InitDrawerState

FetchParked ==
  /\ usersTable = <<>>
  /\ sessionsTable = <<>>
  /\ udUsers = <<>>
  /\ udLoading = FALSE
  /\ udError = Null
  /\ mounted = FALSE
  /\ fn = "none"
  /\ filters = NoFilters
  /\ phase = "users"
  /\ allUsers = <<>>
  /\ allActiveSessions = <<>>
  /\ offset = 0
  /\ hasMore = TRUE
  /\ requests = <<>>
  /\ ret = NoReturn

\* the session detail, one openSessionDrawer call at a time
NextDetail ==
  \/ \E sid \in SessionIds : drawerCalls = <<>> /\ openSessionDrawer(sid)
  \/ SessionLookupDone(1)
  \/ EventsLookupDone(1)
  \/ SubscriptionLookupDone(1)
  \/ closeSessionDrawer

\* the values a consumer passes to a date filter setter: a filter type and, optionally,
\* a custom range whose dates may be empty
FilterInputs ==
  { [filter |-> "daily", hasRange |-> FALSE, startDate |-> Undefined, endDate |-> Undefined],
    [filter |-> "lastMonth", hasRange |-> FALSE, startDate |-> Undefined, endDate |-> Undefined],
    [filter |-> "custom", hasRange |-> FALSE, startDate |-> Undefined, endDate |-> Undefined],
    [filter |-> "custom", hasRange |-> TRUE, startDate |-> 5, endDate |-> Undefined],
    [filter |-> "custom", hasRange |-> TRUE, startDate |-> 5, endDate |-> 85] }

DashUsersFixture ==
  << [id |-> "u1", created_at |-> 100, user_type |-> "standard", has_active_subscription |-> TRUE],
     [id |-> "u2", created_at |-> 80, user_type |-> "premium", has_active_subscription |-> FALSE],
     [id |-> "u3", created_at |-> 10, user_type |-> "standard", has_active_subscription |-> FALSE] >>

DashSessionsFixture ==
  << [user_id |-> "u1", is_active |-> TRUE],
     [user_id |-> "u1", is_active |-> TRUE],
     [user_id |-> "u2", is_active |-> FALSE] >>

DashEventsFixture ==
  << [event_type |-> "view", created_at |-> 100, user_id |-> "u1", page_path |-> "/a",
      utm_source |-> <<"g">>, utm_medium |-> <<"c">>, utm_campaign |-> <<>>],
     [event_type |-> "click", created_at |-> 80, user_id |-> "u2", page_path |-> "/b",
      utm_source |-> <<"n">>, utm_medium |-> <<>>, utm_campaign |-> <<"x">>],
     [event_type |-> "click", created_at |-> 80, user_id |-> "u1", page_path |-> "/b",
      utm_source |-> <<>>, utm_medium |-> <<>>, utm_campaign |-> <<>>],
     [event_type |-> "view", created_at |-> 10, user_id |-> "u3", page_path |-> NoPath,
      utm_source |-> <<"n">>, utm_medium |-> <<>>, utm_campaign |-> <<"x">>] >>

\* useAnalytics after its first render: loading is true, every filter is 'daily'
InitAnalyticsState ==
  /\ overview = NoOverview
  /\ users = <<>>
  /\ eventAnalytics = <<>>
  /\ trafficSources = <<>>
  /\ pageAnalytics = <<>>
  /\ loading = TRUE
  /\ error = Null
  /\ dateFilters = [sec \in FilterSections |->
                      [type |-> "daily", startDate |-> Undefined, endDate |-> Undefined]]
  /\ analyticsMounted = FALSE
  /\ batches = <<>>
  /\ latest = [sec \in FilterSections |-> [q |-> Unrestricted, status |-> "none"]]
  /\ failures = 0
  /\ started = 0

InitDash ==
  /\ dashUsers = DashUsersFixture
  /\ dashSessions = DashSessionsFixture
  /\ dashEvents = DashEventsFixture
  /\ InitAnalyticsState

DashParked ==
  /\ dashUsers = <<>>
  /\ dashSessions = <<>>
  /\ dashEvents = <<>>
  /\ InitAnalyticsState

setUserDateFilter == \E input \in FilterInputs : SetDateFilter("users", input)

setEventDateFilter == \E input \in FilterInputs : SetDateFilter("events", input)

setTrafficDateFilter == \E input \in FilterInputs : SetDateFilter("traffic", input)

setPageDateFilter == \E input \in FilterInputs : SetDateFilter("pages", input)

NextDash ==
  \/ AnalyticsMountEffect
  \/ setUserDateFilter
  \/ setEventDateFilter
  \/ setTrafficDateFilter
  \/ setPageDateFilter
  \/ refetch
  \/ fetchOverviewUsers
  \/ fetchOverviewSessions
  \/ fetchUsers
  \/ fetchEventAnalytics
  \/ fetchTrafficSources
  \/ fetchPageAnalytics

(***************************************************************************)
(* dataFetchers called on their own, over a store of a few rows            *)
(***************************************************************************)
\* rows the store may hold, per table
MaxRows == 3

\* the sequences of at most n elements of S
RECURSIVE SeqsUpTo(_, _)
SeqsUpTo(S, n) ==
  IF n = 0 THEN {<<>>}
  ELSE LET shorter == SeqsUpTo(S, n - 1)
       IN  shorter \cup {Append(l, x) : l \in {y \in shorter : Len(y) = n - 1}, x \in S}

\* event rows: now, a minute ago, 40 minutes ago, two days ago; with and without a
\* page path, a campaign, a medium
AggEventPool ==
  { [event_type |-> "view", event_action |-> "open", page_path |-> "/a", user_id |-> "u1",
     created_at |-> AggNow,
     utm_campaign |-> <<"x">>, utm_source |-> <<"g">>, utm_medium |-> <<"c">>],
    [event_type |-> "click", event_action |-> "tap", page_path |-> "/b", user_id |-> "u1",
     created_at |-> AggNow - 1,
     utm_campaign |-> <<"x">>, utm_source |-> <<"g">>, utm_medium |-> <<"c">>],
    [event_type |-> "click", event_action |-> "tap", page_path |-> "/a", user_id |-> "u2",
     created_at |-> AggNow - 40,
     utm_campaign |-> <<>>, utm_source |-> <<"n">>, utm_medium |-> <<>>],
    [event_type |-> "view", event_action |-> "open", page_path |-> NoPath, user_id |-> "u2",
     created_at |-> AggNow - 2 * MinutesPerDay,
     utm_campaign |-> <<"x">>, utm_source |-> <<"g">>, utm_medium |-> <<>>],
    [event_type |-> "view", event_action |-> "open", page_path |-> "/a", user_id |-> "u1",
     created_at |-> AggNow - 3,
     utm_campaign |-> <<"a">>, utm_source |-> <<"a", "-", "a">>, utm_medium |-> <<"a">>],
    [event_type |-> "view", event_action |-> "open", page_path |-> "/a", user_id |-> "u1",
     created_at |-> AggNow - 3,
     utm_campaign |-> <<"a">>, utm_source |-> <<"a">>, utm_medium |-> <<"a", "-", "a">>] }

AggSessionPool ==
  { [user_id |-> "u1", is_active |-> TRUE],
    [user_id |-> "u2", is_active |-> TRUE],
    [user_id |-> "u1", is_active |-> FALSE] }

\* the optional dateRange argument of fetchEventCountsByType
DateRangeArgs ==
  { [given |-> FALSE, start |-> Undefined, end |-> Undefined],
    [given |-> TRUE, start |-> AggNow - 60, end |-> AggNow] }

\* the minutesBack argument of fetchRealtimeAnalytics (30 by default)
MinutesBackValues == {0, 1, 30}

NoAggCall == [fn |-> "none", arg |-> Undefined]

NoAggOut == [thrown |-> FALSE, value |-> <<>>]

InitAgg ==
  /\ aggEvents \in SeqsUpTo(AggEventPool, MaxRows)
  /\ aggSessions \in SeqsUpTo(AggSessionPool, MaxRows)
  /\ aggCall = NoAggCall
  /\ aggOut = NoAggOut

AggParked ==
  /\ aggEvents = <<>>
  /\ aggSessions = <<>>
  /\ aggCall = NoAggCall
  /\ aggOut = NoAggOut

\* the call returns value, or throws what handleSupabaseError threw
Returns(f, arg, ans, value) ==
  /\ aggCall' = [fn |-> f, arg |-> arg]
  /\ aggOut' = (IF ans.ok THEN [thrown |-> FALSE, value |-> value]
                ELSE [thrown |-> TRUE, value |-> <<>>])
  /\ UNCHANGED <<aggEvents, aggSessions>>

\* fetchEventCountsByType(dateRange?)
fetchEventCountsByType ==
  /\ UNCHANGED notAggVars
  /\ \E range \in DateRangeArgs :
       LET q == IF range.given
                THEN EventCountsQuery([startDate |-> range.start, endDate |-> range.end])
                ELSE Unrestricted
       IN  \E ans \in DashAnswers(aggEvents, q) :
             Returns("fetchEventCountsByType", range, ans, EventCountsByType(ans.rows))

\* fetchCampaignAnalytics(): .not('utm_campaign', 'is', null)
fetchCampaignAnalytics ==
  /\ UNCHANGED notAggVars
  /\ \E ans \in DashAnswers(SelectSeq(aggEvents, LAMBDA e : e.utm_campaign # <<>>),
                            Unrestricted) :
       Returns("fetchCampaignAnalytics", Undefined, ans, CampaignAnalyticsOf(ans.rows))

\* fetchPagePerformance(): .select(...).not('page_path', 'is', null)
fetchPagePerformance ==
  /\ UNCHANGED notAggVars
  /\ \E ans \in DashAnswers(WithPage(aggEvents), Unrestricted) :
       Returns("fetchPagePerformance", Undefined, ans,
               PagePerformanceOf([i \in 1..Len(ans.rows) |->
                                    Project(ans.rows[i], PagePerformanceColumns)]))

\* .gte('created_at', cutoffTime).order('created_at', { ascending: false })
RealtimeWindow(minutesBack) ==
  SortDescBy(SelectSeq(aggEvents, LAMBDA e : e.created_at >= AggNow - minutesBack),
             "created_at")

\* fetchRealtimeAnalytics(minutesBack)
fetchRealtimeAnalytics ==
  /\ UNCHANGED notAggVars
  /\ \E minutesBack \in MinutesBackValues :
       \E ans \in DashAnswers(RealtimeWindow(minutesBack), Unrestricted) :
         Returns("fetchRealtimeAnalytics", minutesBack, ans, RealtimeOf(ans.rows, minutesBack))

\* the optional userId argument of fetchUserJourneys
JourneyArgs == {[given |-> FALSE, userId |-> Null], [given |-> TRUE, userId |-> "u1"]}

\* the rows the query of fetchUserJourneys(arg) matches, in the order it asks for
JourneyRows(arg) ==
  SortAscBy(SelectSeq(WithPage(aggEvents),
                      LAMBDA e : arg.given => e.user_id = arg.userId), "created_at")

\* fetchUserJourneys(userId?)
fetchUserJourneys ==
  /\ UNCHANGED notAggVars
  /\ \E arg \in JourneyArgs :
       \E ans \in DashAnswers(JourneyRows(arg), Unrestricted) :
         Returns("fetchUserJourneys", arg, ans,
                 UserJourneysOf([i \in 1..Len(ans.rows) |->
                                   Project(ans.rows[i], JourneyColumns)]))

\* activeUsers as fetchOverview and as fetchUserStatistics compute it from the rows
\* their .eq('is_active', true) requests return
countActiveUsers ==
  /\ UNCHANGED notAggVars
  /\ aggCall' = [fn |-> "activeUsers", arg |-> Undefined]
  /\ aggOut' = [thrown |-> FALSE,
                value |-> [overview |->
                             OverviewOf(DashUsersFixture,
                                        SelectSeq(aggSessions, LAMBDA r : r.is_active)).activeUsers,
                           statistics |-> UniqueActiveUsers(ActiveSessions(aggSessions))]]
  /\ UNCHANGED <<aggEvents, aggSessions>>

NextAgg ==
  \/ fetchEventCountsByType
  \/ fetchCampaignAnalytics
  \/ fetchPagePerformance
  \/ fetchRealtimeAnalytics
  \/ fetchUserJourneys
  \/ countActiveUsers

(***************************************************************************)
(* UserAndSessionTable: client-side pagination of the users prop           *)
(***************************************************************************)
dataLimit == 10

MaxTableUsers == 25

MaxPage == 5

\* Array.prototype.slice(startIndex, endIndex), for 0 <= startIndex <= endIndex
Slice(s, startIndex, endIndex) ==
  SubSeq(s, Min(startIndex, Len(s)) + 1, Min(endIndex, Len(s)))

totalPages == CeilDiv(Len(tableUsers), dataLimit)

getPaginatedData ==
  LET startIndex == (currentPage - 1) * dataLimit
      endIndex == startIndex + dataLimit
  IN Slice(tableUsers, startIndex, endIndex)

\* the pagination controls are rendered only when totalPages > 1
ControlsShown == tableMounted /\ totalPages > 1

goToNextPage ==
  /\ UNCHANGED notTableVars
  /\ ControlsShown
  /\ currentPage # totalPages
  /\ currentPage < MaxPage          \* bound of the model, not of the code
  /\ currentPage' = currentPage + 1
  /\ UNCHANGED <<tableUsers, tableMounted>>

goToPreviousPage ==
  /\ UNCHANGED notTableVars
  /\ ControlsShown
  /\ currentPage # 1
  /\ currentPage' = currentPage - 1
  /\ UNCHANGED <<tableUsers, tableMounted>>

\* fetchUsers answers and setUsers replaces the list; a mounted table is
\* re-rendered with the new prop and keeps its state
UsersReplaced(n) ==
  /\ UNCHANGED notTableVars
  /\ tableUsers' = [i \in 1..n |-> i]
  /\ UNCHANGED <<currentPage, tableMounted>>

\* Dashboard returns the spinner or the error message instead of the page
TableUnmounted ==
  /\ UNCHANGED notTableVars
  /\ tableMounted
  /\ tableMounted' = FALSE
  /\ UNCHANGED <<tableUsers, currentPage>>

\* Dashboard renders the page again: the table is a new instance
TableMounted ==
  /\ UNCHANGED notTableVars
  /\ ~tableMounted
  /\ tableMounted' = TRUE
  /\ currentPage' = 1
  /\ UNCHANGED tableUsers

InitTable ==
  /\ tableUsers = <<>>
  /\ currentPage = 1
  /\ tableMounted = FALSE

TableParked ==
  /\ tableUsers = <<>>
  /\ currentPage = 1
  /\ tableMounted = FALSE

NextTable ==
  \/ goToNextPage
  \/ goToPreviousPage
  \/ \E n \in 0..MaxTableUsers : UsersReplaced(n)
  \/ TableUnmounted
  \/ TableMounted


(***************************************************************************)
(* fetchAllUsers while other clients insert into users                     *)
(***************************************************************************)
MaxInserts == 2

\* created_at of the first row inserted during the run: later than every
\* row of the initial store
FirstInsertedAt == fetchSize * (MaxFullPages + 1)

InsertedRows == SelectSeq(usersTable, LAMBDA r : r >= FirstInsertedAt)

\* another client inserts a row while a call is in progress: the newest row
\* is the first of .order('created_at', { ascending: false })
InsertUser ==
  /\ UNCHANGED notFetchVars
  /\ fn = "fetchAllUsers"
  /\ Len(InsertedRows) < MaxInserts
  /\ usersTable' = <<FirstInsertedAt + Len(InsertedRows)>> \o usersTable
  /\ UNCHANGED <<sessionsTable, udUsers, udLoading, udError, mounted, fn, filters, phase,
                 allUsers, allActiveSessions, offset, hasMore, requests, ret>>

NextFetchLive ==
  \/ MountEffect
  \/ fetchAllUsers
  \/ PageSuccess
  \/ PageError
  \/ InsertUser


(***************************************************************************)
(* useUserData: fetchUsersPaginated                                        *)
(***************************************************************************)
MaxPagedRows == 7

MaxPageIndex == 3

MaxPageSize == 3

NoPagedCall == [status |-> "none", page |-> 0, pageSize |-> 1, ascending |-> FALSE]

NoPagedOut ==
  [kind |-> "none", users |-> <<>>, totalCount |-> 0, currentPage |-> 0, pageSize |-> 1,
   totalPages |-> 0, hasMore |-> FALSE, hasPrevious |-> FALSE]

RECURSIVE Reversed(_)
Reversed(s) == IF s = <<>> THEN <<>> ELSE Append(Reversed(Tail(s)), Head(s))

\* mutant of PagedHasMore: the row at position `to` counted as a further row
PagedHasMoreInclusive(count, to) == count > to

\* hasMore: (count || 0) > to + 1
PagedHasMore(count, to) == count > to + 1

\* the object returned when the request succeeded with rows data and count
PagedResult(page, pageSize, data, count) ==
  LET from == page * pageSize
      to == from + pageSize - 1
  IN  [kind |-> "ok", users |-> data, totalCount |-> count, currentPage |-> page,
       pageSize |-> pageSize, totalPages |-> CeilDiv(count, pageSize),
       hasMore |-> PagedHasMore(count, to), hasPrevious |-> page > 0]

\* the object returned by the catch block
PagedErrorResult(page, pageSize) ==
  [kind |-> "error", users |-> <<>>, totalCount |-> 0, currentPage |-> page,
   pageSize |-> pageSize, totalPages |-> 0, hasMore |-> FALSE, hasPrevious |-> FALSE]

\* fetchUsersPaginated(page, pageSize, 'created_at', ascending) up to its await
fetchUsersPaginated(page, pageSize, ascending) ==
  /\ UNCHANGED <<drawerVars, dashVars, aggVars, tableVars>>
  /\ fn = "none"
  /\ pagedCall.status # "pending"
  /\ pagedCall' = [status |-> "pending", page |-> page, pageSize |-> pageSize,
                   ascending |-> ascending]
  /\ pagedOut' = NoPagedOut
  /\ udLoading' = TRUE
  /\ udError' = Null
  /\ UNCHANGED <<usersTable, sessionsTable, udUsers, mounted, fn, filters, phase,
                 allUsers, allActiveSessions, offset, hasMore, requests, ret>>

\* the request answers with rows and the exact count: setUsers, return, finally
PagedSuccess ==
  /\ UNCHANGED <<drawerVars, dashVars, aggVars, tableVars>>
  /\ pagedCall.status = "pending"
  /\ LET from == pagedCall.page * pagedCall.pageSize
         to == from + pagedCall.pageSize - 1
         ordered == IF pagedCall.ascending THEN Reversed(usersTable) ELSE usersTable
         result == PagedResult(pagedCall.page, pagedCall.pageSize,
                               Range(ordered, from, to), Len(usersTable))
     IN  /\ pagedOut' = result
         /\ udUsers' = result.users
  /\ pagedCall' = [pagedCall EXCEPT !.status = "done"]
  /\ udLoading' = FALSE
  /\ UNCHANGED <<usersTable, sessionsTable, udError, mounted, fn, filters, phase,
                 allUsers, allActiveSessions, offset, hasMore, requests, ret>>

\* the request answers with an error: throw, catch, finally
PagedError ==
  /\ UNCHANGED <<drawerVars, dashVars, aggVars, tableVars>>
  /\ pagedCall.status = "pending"
  /\ pagedOut' = PagedErrorResult(pagedCall.page, pagedCall.pageSize)
  /\ pagedCall' = [pagedCall EXCEPT !.status = "done"]
  /\ udError' = "Failed to fetch paginated users"
  /\ udLoading' = FALSE
  /\ UNCHANGED <<usersTable, sessionsTable, udUsers, mounted, fn, filters, phase,
                 allUsers, allActiveSessions, offset, hasMore, requests, ret>>

PagedParked ==
  /\ pagedCall = NoPagedCall
  /\ pagedOut = NoPagedOut

InitPaged ==
  /\ \E n \in 0..MaxPagedRows : usersTable = [i \in 1..n |-> n + 1 - i]
  /\ sessionsTable = <<>>
  /\ udUsers = <<>>
  /\ udLoading = FALSE
  /\ udError = Null
  /\ mounted = TRUE
  /\ fn = "none"
  /\ filters = NoFilters
  /\ phase = "users"
  /\ allUsers = <<>>
  /\ allActiveSessions = <<>>
  /\ offset = 0
  /\ hasMore = TRUE
  /\ requests = <<>>
  /\ ret = NoReturn
  /\ PagedParked

NextPaged ==
  \/ \E page \in 0..MaxPageIndex, pageSize \in 1..MaxPageSize, ascending \in BOOLEAN :
       fetchUsersPaginated(page, pageSize, ascending)
  \/ PagedSuccess
  \/ PagedError

InitPagedAll == InitPaged /\ DrawerParked /\ DashParked /\ AggParked /\ TableParked

SpecPaged == InitPagedAll /\ [][NextPaged]_vars


InitAggAll == InitAgg /\ FetchParked /\ DrawerParked /\ DashParked /\ TableParked /\ PagedParked

SpecAgg == InitAggAll /\ [][NextAgg]_vars

\* openSessionDrawer calls that may be in flight together
MaxOverlap == 2

\* a store with the sessions s1 (user u1) and s2 (user u2)
InitDrawer ==
  /\ dbSessions = {[id |-> "s1", user_id |-> "u1", started_at |-> 60000, ended_at |-> Undefined],
                   [id |-> "s2", user_id |-> "u2", started_at |-> 70000, ended_at |-> 125000]}
  /\ dbEvents \in {<<>>,
                   <<[session_id |-> "s1", page_path |-> "/a", created_at |-> 1],
                     [session_id |-> "s2", page_path |-> "/b", created_at |-> 2]>>}
  /\ dbSubscriptions \in {<<>>, <<[user_id |-> "u1", status |-> "active", plan_id |-> "pro"]>>}
  /\ InitDrawerState

\* the session drawer with overlapping openSessionDrawer calls: the hook neither
\* waits for a call in flight nor cancels it
NextDrawer ==
  \/ \E sid \in SessionIds : Len(drawerCalls) < MaxOverlap /\ openSessionDrawer(sid)
  \/ \E i \in 1..MaxOverlap : SessionLookupDone(i)
  \/ \E i \in 1..MaxOverlap : EventsLookupDone(i)
  \/ \E i \in 1..MaxOverlap : SubscriptionLookupDone(i)
  \/ closeSessionDrawer

InitDrawerAll == InitDrawer /\ FetchParked /\ DashParked /\ AggParked /\ TableParked /\ PagedParked

SpecDrawer == InitDrawerAll /\ [][NextDrawer]_vars

InitDashAll == InitDash /\ FetchParked /\ DrawerParked /\ AggParked /\ TableParked /\ PagedParked

SpecDash == InitDashAll /\ [][NextDash]_vars

\* the answer to some request in flight arrives
RequestAnswered ==
  \/ fetchOverviewUsers
  \/ fetchOverviewSessions
  \/ fetchUsers
  \/ fetchEventAnalytics
  \/ fetchTrafficSources
  \/ fetchPageAnalytics

\* the filter changes tried under fairness: a preset and a full custom range
LiveFilterInputs == {i \in FilterInputs : i.filter = "lastMonth" \/ i.endDate # Undefined}

setSomeDateFilter ==
  \E sec \in FilterSections, input \in LiveFilterInputs : SetDateFilter(sec, input)

NextDashLive ==
  \/ AnalyticsMountEffect
  \/ setSomeDateFilter
  \/ refetch
  \/ RequestAnswered

\* React runs the effect after the first render, and every remote request
\* eventually gets a response
SpecDashFair ==
  /\ InitDashAll
  /\ [][NextDashLive]_vars
  /\ WF_vars(AnalyticsMountEffect)
  /\ WF_vars(RequestAnswered)

InitDetailAll == InitDetail /\ FetchParked /\ DashParked /\ AggParked /\ TableParked /\ PagedParked

SpecDetail == InitDetailAll /\ [][NextDetail]_vars

InitFetchAll == InitFetch /\ DrawerParked /\ DashParked /\ AggParked /\ TableParked /\ PagedParked

SpecFetch == InitFetchAll /\ [][NextFetch]_vars

SpecFetchLive == InitFetchAll /\ [][NextFetchLive]_vars

InitTableAll == InitTable /\ FetchParked /\ DrawerParked /\ DashParked /\ AggParked /\ PagedParked

SpecTable == InitTableAll /\ [][NextTable]_vars

(***************************************************************************)
(* Claims about the paginated fetch (checked under SpecFetch)              *)
(***************************************************************************)
\* the last loop ended with a page that was not an error
LoopSucceeded == fn = "none" /\ requests # <<>> /\ requests[Len(requests)].got >= 0

\* C1: for every number N of matching rows (0, fetchSize and fetchSize + 1 included) and
\* no remote error, the paginated loop never issues more than ceil(N / fetchSize) + 1
\* requests, and when it ends it has accumulated, and returns, exactly the N matching rows.
C1_FetchReturnsAllRows ==
  /\ Len(requests) <= CeilDiv(Len(LoopRows), fetchSize) + 1
  /\ LoopSucceeded =>
       /\ Len(allUsers) = Len(Matching(usersTable, filters))
       /\ allUsers = Matching(usersTable, filters)
       /\ ret.kind = "rows" => ret.rows = PostFilter(Matching(usersTable, filters), filters)
       /\ ret.kind = "stats" =>
            /\ ret.totalUsers = Len(usersTable)
            /\ allActiveSessions = ActiveSessions(sessionsTable)

\* a successful fetchAllUsers over exactly two full pages: three requests, 2 * fetchSize rows
C1_Witness ==
  /\ LoopSucceeded
  /\ ret.kind = "rows"
  /\ Len(usersTable) = 2 * fetchSize
  /\ Len(ret.rows) = 2 * fetchSize
  /\ Len(requests) = 3

\* C2: a further page request is issued exactly when the previous page returned
\* fetchSize rows: every answered request but the last got a full page, the last
\* answered request of a finished loop got fewer (possibly zero), and a full page is
\* always followed by another request. 1500 rows give two requests (1000, then 500).
C2_StopsOnShortPage ==
  /\ \A i \in 1..Len(requests) :
       /\ i < Len(requests) => requests[i].got = fetchSize
       /\ requests[i].got = fetchSize => i < Len(requests)
  /\ LoopSucceeded => requests[Len(requests)].got < fetchSize
  /\ (LoopSucceeded /\ Len(LoopRows) = fetchSize + fetchSize \div 2) =>
       /\ Len(requests) = 2
       /\ requests[1].got = fetchSize
       /\ requests[2].got = fetchSize \div 2

\* 1500 matching rows fetched in two requests
C2_Witness ==
  /\ LoopSucceeded
  /\ phase = "users"
  /\ Len(LoopRows) = fetchSize + fetchSize \div 2
  /\ Len(requests) = 2
  /\ Len(allUsers) = fetchSize + fetchSize \div 2

\* C3: the step on which a page request answers with an error ends the call: no
\* further request is issued, the call returns an empty collection, the users state
\* keeps its previous value, the error flag is set and loading is cleared.
C3_ErrorAbortsFetch ==
  [][ (fn # "none" /\ udError' # Null) =>
        /\ fn' = "none"
        /\ Len(requests') = Len(requests)
        /\ requests'[Len(requests')].got = -2
        /\ ret'.rows = <<>>
        /\ ret'.kind \in {"rows", "null"}
        /\ udUsers' = udUsers
        /\ udError' = ErrorMessage(fn)
        /\ udLoading' = FALSE ]_vars

\* an error on a later page: rows were accumulated, none returned, users state kept
C3_Witness ==
  /\ fn = "none"
  /\ udError # Null
  /\ Len(requests) >= 2
  /\ Len(allUsers) >= fetchSize
  /\ ret.rows = <<>>
  /\ udUsers # <<>>
  /\ udUsers # allUsers
  /\ udLoading = FALSE

(***************************************************************************)
(* Claims about the session detail (checked under SpecDetail)              *)
(***************************************************************************)
\* C4: opening the detail of a session id that is not in the store (the lookup
\* answers PGRST116 and no data) ends in the explicit not-found outcome
\* "Session data not found.", not in the failure outcome.
C4_MissingSessionIsNotFound ==
  (lastCall.outcome # "none" /\ lastCall.sessionError = "PGRST116") =>
     /\ lastCall.outcome = "notfound"
     /\ lastCall.errorSet = "Session data not found."

\* C5: for an existing session whose event lookup succeeded, a subscription lookup
\* that fails (remote error) or finds no single active subscription (PGRST116) still
\* yields a detail object with no subscription and the session's full event list;
\* openSessionDrawer sets selectedSession and no drawerError.
C5_SubscriptionFailureDegrades ==
  (lastCall.subAsked /\ lastCall.eventsError = Null /\ lastCall.subError # Null) =>
     /\ lastCall.outcome = "detail"
     /\ lastCall.errorSet = Null
     /\ lastCall.result.subscription = NoSubscription
     /\ lastCall.result.events = SelectSeq(dbEvents, LAMBDA e : e.session_id = lastCall.sid)
     /\ drawerCalls = <<>> =>
          /\ drawerError = Null
          /\ isDrawerOpen => selectedSession = lastCall.result

\* the subscription lookup failed remotely, the detail with all events is shown
C5_Witness ==
  /\ lastCall.subError = "remote"
  /\ lastCall.eventsError = Null
  /\ lastCall.outcome = "detail"
  /\ Len(lastCall.result.events) = MaxEvents
  /\ drawerCalls = <<>>
  /\ selectedSession = lastCall.result
  /\ drawerError = Null

\* C6: for an existing session, a failure of the event query does not abort the
\* assembly: the subscription lookup is still made and the detail object has an empty
\* event list, total_events = 0, unique_pages = 0 and no page visits.
C6_EventFailureDegrades ==
  (lastCall.outcome # "none" /\ lastCall.eventsError # Null) =>
     /\ lastCall.subAsked
     /\ lastCall.outcome = "detail"
     /\ lastCall.result.events = <<>>
     /\ lastCall.result.sessionStats.total_events = 0
     /\ lastCall.result.sessionStats.unique_pages = 0
     /\ lastCall.result.pageVisits = <<>>

\* the store holds events of the session, their query failed, the detail is shown empty
C6_Witness ==
  /\ lastCall.eventsError = "remote"
  /\ lastCall.outcome = "detail"
  /\ Len(dbEvents) = MaxEvents
  /\ lastCall.result.events = <<>>
  /\ lastCall.sid = "s1"
  /\ selectedSession = lastCall.result

\* the view-model slot of a section
Slot(sec) ==
  CASE sec = "users"   -> users
    [] sec = "events"  -> eventAnalytics
    [] sec = "traffic" -> trafficSources
    [] sec = "pages"   -> pageAnalytics

\* the filter mode is 'custom' and the two bounds are not both supplied
CustomIncomplete(f) == f.type = "custom" /\ (f.startDate = Undefined \/ f.endDate = Undefined)

\* C7: for every section with a date filter, when its filter is 'custom' without both
\* bounds, the query the section issued carries no created_at restriction.
C7_CustomWithoutBoundsUnrestricted ==
  \A sec \in FilterSections :
    (latest[sec].status # "none" /\ CustomIncomplete(dateFilters[sec]))
      => latest[sec].q = Unrestricted

\* C8: once no fetch of a section is in flight and its most recently initiated fetch
\* succeeded, the section's slot holds the result of that fetch.
C8_LatestFetchWins ==
  \A sec \in FilterSections :
    (latest[sec].status = "ok" /\ \A i \in 1..Len(batches) : sec \notin batches[i].pending)
      => Slot(sec) = SectionResult(sec, latest[sec].q)

\* C9: during a dashboard load, loading is never false while a fetch of that load is
\* still in flight (stated for the first load, before any other is started).
C9_LoadingUntilAllDone ==
  (started = 1 /\ batches # <<>>) => loading = TRUE

\* C10: a change of one section's date filter issues fetches for that section only.
C10_FilterChangeFetchesOwnSection ==
  \A i \in 1..Len(batches) :
    batches[i].cause \in FilterSections => batches[i].issued \subseteq {batches[i].cause}

(***************************************************************************)
(* Claims about the aggregations (checked under SpecAgg)                   *)
(***************************************************************************)
\* the sum of field f over the records of s
RECURSIVE SumField(_, _)
SumField(s, f) == IF s = <<>> THEN 0 ELSE SumField(Front(s), f) + s[Len(s)][f]

\* function f was called last and returned
Returned(f) == aggCall.fn = f /\ ~aggOut.thrown

\* the rows the query of the last fetchEventCountsByType call matched
EventCountsInput ==
  IF aggCall.arg.given
  THEN SelectSeq(aggEvents, LAMBDA e : e.created_at >= aggCall.arg.start /\
                                        e.created_at <= aggCall.arg.end)
  ELSE aggEvents

\* C11: the event-type counts have exactly one record per distinct event type of the
\* input rows, each count is the number of rows of that type, and the counts sum to
\* the number of input rows.
C11_EventCountsPartitionRows ==
  Returned("fetchEventCountsByType") =>
    LET rows == EventCountsInput
        out == aggOut.value
        types == {rows[j].event_type : j \in 1..Len(rows)}
    IN  /\ {out[i].eventType : i \in 1..Len(out)} = types
        /\ Len(out) = Cardinality(types)
        /\ \A i \in 1..Len(out) :
             out[i].count = Cardinality({j \in 1..Len(rows) : rows[j].event_type = out[i].eventType})
        /\ SumField(out, "count") = Len(rows)

\* a call over rows with a repeated event type and a second type
C11_Witness ==
  /\ Returned("fetchEventCountsByType")
  /\ Len(aggOut.value) = 2
  /\ Len(EventCountsInput) = 3

\* C12: the event-type counts are sorted descending by count.
C12_EventCountsSortedDescending ==
  Returned("fetchEventCountsByType") =>
    \A i, j \in 1..Len(aggOut.value) :
      i < j => aggOut.value[i].count >= aggOut.value[j].count

\* C13: each ratio field is the string "0" whenever its denominator is zero:
\* avgEventsPerDay with 0 active days, avgVisitsPerUser with 0 distinct users,
\* eventsPerMinute with minutesBack = 0, for any number of matching events.
C13_RatioZeroOnZeroDenominator ==
  /\ Returned("fetchCampaignAnalytics") =>
       \A i \in 1..Len(aggOut.value) :
         aggOut.value[i].activeDays = 0 => aggOut.value[i].avgEventsPerDay = ZeroString
  /\ Returned("fetchPagePerformance") =>
       \A i \in 1..Len(aggOut.value) :
         aggOut.value[i].uniqueUsers = 0 => aggOut.value[i].avgVisitsPerUser = ZeroString
  /\ (Returned("fetchRealtimeAnalytics") /\ aggCall.arg = 0) =>
       aggOut.value.eventsPerMinute = ZeroString

\* the positions of the stored events that lie in the trailing window of the last
\* fetchRealtimeAnalytics call
InWindow == {j \in 1..Len(aggEvents) : aggEvents[j].created_at >= AggNow - aggCall.arg}

\* C14: fetchRealtimeAnalytics returns totalEvents = number of events in the trailing
\* window, uniqueActiveUsers = number of distinct user ids among them, eventTypes = the
\* distinct event types among them; with no event in a 30-minute window it returns
\* eventsPerMinute "0", uniqueActiveUsers 0 and eventTypes [].
C14_RealtimeTotals ==
  Returned("fetchRealtimeAnalytics") =>
    LET out == aggOut.value
    IN  /\ out.totalEvents = Cardinality(InWindow)
        /\ out.uniqueActiveUsers = Cardinality({aggEvents[j].user_id : j \in InWindow})
        /\ {out.eventTypes[i] : i \in 1..Len(out.eventTypes)} =
             {aggEvents[j].event_type : j \in InWindow}
        /\ Len(out.eventTypes) = Cardinality({aggEvents[j].event_type : j \in InWindow})
        /\ (aggCall.arg = 30 /\ InWindow = {}) =>
             /\ out.eventsPerMinute = ZeroString
             /\ out.uniqueActiveUsers = 0
             /\ out.eventTypes = <<>>

\* a 30-minute window over a store whose events are all older; and the zero
\* answer is not the answer of every call
C14_Witness ==
  /\ Returned("fetchRealtimeAnalytics")
  /\ aggCall.arg = 30
  /\ Len(aggEvents) = MaxRows
  /\ InWindow = {}
  /\ aggOut.value.eventsPerMinute = ZeroString
  /\ aggOut.value.eventTypes = <<>>

\* the user ids that have at least one active session row
UsersWithActiveSession ==
  {aggSessions[j].user_id : j \in {k \in 1..Len(aggSessions) : aggSessions[k].is_active}}

\* C19: activeUsers of fetchOverview and of fetchUserStatistics counts every user with
\* at least one active session exactly once, however many active session rows the
\* user has, and never exceeds the number of distinct user ids.
C19_ActiveUsersCountedOnce ==
  Returned("activeUsers") =>
    /\ aggOut.value.overview = Cardinality(UsersWithActiveSession)
    /\ aggOut.value.statistics = Cardinality(UsersWithActiveSession)
    /\ aggOut.value.overview <= Cardinality({aggSessions[j].user_id : j \in 1..Len(aggSessions)})
    /\ aggOut.value.statistics <= Cardinality({aggSessions[j].user_id : j \in 1..Len(aggSessions)})

\* one user holds every active session row of the store, and is counted once
C19_Witness ==
  /\ Returned("activeUsers")
  /\ Len(aggSessions) = MaxRows
  /\ \A j \in 1..Len(aggSessions) : aggSessions[j].is_active /\ aggSessions[j].user_id = "u1"
  /\ aggOut.value.overview = 1
  /\ aggOut.value.statistics = 1

\* the rows fetchPagePerformance reads: those with a page path
PerformanceInput == SelectSeq(aggEvents, LAMBDA e : e.page_path # NoPath)

\* C20: fetchPagePerformance returns exactly one record per distinct page_path among
\* the input rows, whose visits is the number of rows with that path and whose
\* uniqueUsers is the number of distinct user ids among those rows.
C20_PagePerformanceGroupsByPath ==
  Returned("fetchPagePerformance") =>
    LET rows == PerformanceInput
        paths == {rows[j].page_path : j \in 1..Len(rows)}
    IN  /\ Len(aggOut.value) = Cardinality(paths)
        /\ \A p \in paths :
             \E i \in 1..Len(aggOut.value) :
               /\ aggOut.value[i].visits =
                    Cardinality({j \in 1..Len(rows) : rows[j].page_path = p})
               /\ aggOut.value[i].uniqueUsers =
                    Cardinality({rows[j].user_id : j \in {k \in 1..Len(rows) : rows[k].page_path = p}})

\* C15: sessionStats holds an elapsed duration (minutes and seconds of end minus
\* start) if and only if the stored session has an end timestamp.
C15_DurationIffEnded ==
  lastCall.outcome = "detail" =>
    \A r \in dbSessions :
      r.id = lastCall.sid =>
        /\ (lastCall.result.sessionStats.session_duration # NoDuration) <=>
             (r.ended_at # Undefined)
        /\ r.ended_at # Undefined =>
             lastCall.result.sessionStats.session_duration =
               [minutes |-> (r.ended_at - r.started_at) \div 60000,
                seconds |-> ((r.ended_at - r.started_at) % 60000) \div 1000]

\* the events of the session the last call read: those of the store, or none when
\* the event query failed
DetailEvents ==
  IF lastCall.eventsError = Null
  THEN SelectSeq(dbEvents, LAMBDA e : e.session_id = lastCall.sid)
  ELSE <<>>

\* the positions of the events read on page path p
OnPath(p) == {j \in 1..Len(DetailEvents) : DetailEvents[j].page_path = p}

\* C16: pageVisits has exactly one entry per distinct page path among the session's
\* events, with visit_count = number of events on the path and last_visited = the
\* latest created_at among them; unique_pages = number of entries, total_events =
\* number of events, and the visit_counts sum to the number of events with a path.
C16_PageVisitsSummary ==
  lastCall.outcome = "detail" =>
    LET pv == lastCall.result.pageVisits
        stats == lastCall.result.sessionStats
        paths == {DetailEvents[j].page_path : j \in 1..Len(DetailEvents)} \ {NoPath}
    IN  /\ {pv[i].page_path : i \in 1..Len(pv)} = paths
        /\ Len(pv) = Cardinality(paths)
        /\ \A i \in 1..Len(pv) :
             /\ pv[i].visit_count = Cardinality(OnPath(pv[i].page_path))
             /\ \E j \in OnPath(pv[i].page_path) : pv[i].last_visited = DetailEvents[j].created_at
             /\ \A j \in OnPath(pv[i].page_path) : pv[i].last_visited >= DetailEvents[j].created_at
        /\ stats.unique_pages = Len(pv)
        /\ stats.total_events = Len(DetailEvents)
        /\ SumField(pv, "visit_count") =
             Cardinality({j \in 1..Len(DetailEvents) : DetailEvents[j].page_path # NoPath})

\* a detail whose events all lie on one page: one entry, counted as often as visited
C16_Witness ==
  /\ lastCall.outcome = "detail"
  /\ Len(DetailEvents) = MaxEvents
  /\ Len(lastCall.result.pageVisits) = 1
  /\ lastCall.result.pageVisits[1].visit_count = MaxEvents
  /\ lastCall.result.pageVisits[1].last_visited = DetailEvents[MaxEvents].created_at

(***************************************************************************)
(* Claims about errors of the dashboard fetches (checked under SpecDash)   *)
(***************************************************************************)
\* the error state the view-model holds for a section: the hook has one error
\* state, which it returns for all sections
SectionError(sec) == error

\* this step is a failure of the fetch of section sec: its catch block sets the message
FetchFails(sec) ==
  /\ started' = started
  /\ error' # error
  /\ error' = FetchErrorMessage(sec)

\* C17: a failure of one section's fetch sets only that section's error flag and
\* leaves the error state of the other sections unchanged.
C17_FailureSetsOwnErrorOnly ==
  [][\A sec \in Sections :
       FetchFails(sec) => \A other \in Sections \ {sec} :
                            SectionError(other)' = SectionError(other)]_vars

\* the requests in flight: one per fetch that has not ended
RECURSIVE InFlight(_)
InFlight(bs) == IF bs = <<>> THEN 0 ELSE InFlight(Front(bs)) + Cardinality(bs[Len(bs)].pending)

\* C18: there is no automatic retry: a fetch that fails ends without a new request,
\* no step other than the start of a fetch sequence adds a request, and after a failure
\* a fetch sequence starts only on a user action (refetch or a filter change).
C18_NoAutomaticRetry ==
  [][/\ failures' > failures => InFlight(batches') = InFlight(batches) - 1
     /\ started' = started => InFlight(batches') <= InFlight(batches)
     /\ (started' # started /\ (failures > 0 \/ error # Null)) =>
          batches'[Len(batches')].cause \in FilterSections \cup {"refetch"}]_vars

\* a fetch failed remotely, its error is shown and no request is in flight
C18_Witness ==
  /\ failures = MaxFailures
  /\ error # Null
  /\ batches = <<>>
  /\ started = 1

(***************************************************************************)
(* Claims about the order of page requests (checked under SpecFetch)       *)
(***************************************************************************)
\* the rows the first k requests of the running loop returned, in request order
RECURSIVE PagesConcat(_, _)
PagesConcat(reqs, k) ==
  IF k = 0 THEN <<>>
  ELSE PagesConcat(reqs, k - 1) \o
       (IF reqs[k].got >= 0 THEN Range(LoopRows, reqs[k].from, reqs[k].to) ELSE <<>>)

\* the accumulator of the running loop
Accumulator == IF phase = "sessions" THEN allActiveSessions ELSE allUsers

\* C21: within one paginated fetch a request is sent only after the previous response
\* has arrived, the k-th request asks for [offset, offset + fetchSize) with offset =
\* number of rows returned by requests 1..k-1, and the accumulated result is the
\* pages' rows concatenated in request order.
C21_SequentialContiguousPages ==
  /\ \A k \in 1..Len(requests) :
       /\ k < Len(requests) => requests[k].got >= 0
       /\ requests[k].from = Len(PagesConcat(requests, k - 1))
       /\ requests[k].to = requests[k].from + fetchSize - 1
       /\ requests[k].got >= 0 =>
            requests[k].got = Len(Range(LoopRows, requests[k].from, requests[k].to))
  /\ Accumulator = PagesConcat(requests, Len(requests))

\* a loop of three requests, the last one returning a partial page, has ended
C21_Witness ==
  /\ LoopSucceeded
  /\ Len(requests) = 3
  /\ requests[3].got > 0
  /\ requests[3].got < fetchSize
  /\ requests[3].from = 2 * fetchSize

\* the rows the last fetchUserJourneys call read: those with a page path, of the
\* user asked for, in ascending created_at order
JourneysInput ==
  SortAscBy(SelectSeq(aggEvents, LAMBDA e :
              /\ e.page_path # NoPath
              /\ aggCall.arg.given => e.user_id = aggCall.arg.userId), "created_at")

\* C22: fetchUserJourneys returns exactly one record per distinct user id among the
\* input rows; the record's journey lists exactly that user's rows (path, action,
\* timestamp) in ascending created_at order, totalSteps is the length of the journey,
\* and the totalSteps of all records sum to the number of input rows.
C22_JourneysListUserRows ==
  Returned("fetchUserJourneys") =>
    LET rows == JourneysInput
        out == aggOut.value
        ids == {rows[j].user_id : j \in 1..Len(rows)}
    IN  /\ {out[i].userId : i \in 1..Len(out)} = ids
        /\ Len(out) = Cardinality(ids)
        /\ SumField(out, "totalSteps") = Len(rows)
        /\ \A i \in 1..Len(out) :
             LET mine == SelectSeq(rows, LAMBDA e : e.user_id = out[i].userId)
                 journey == out[i].journey
             IN  /\ out[i].totalSteps = Len(journey)
                 /\ Len(journey) = Len(mine)
                 /\ \A k \in 1..Len(journey) :
                      /\ journey[k].timestamp = mine[k].created_at
                      /\ journey[k].action = mine[k].event_action
                      /\ k > 1 => journey[k - 1].timestamp <= journey[k].timestamp
                      /\ "path" \in DOMAIN journey[k]
                      /\ journey[k].path = mine[k].page_path

(***************************************************************************)
(* Claims about overlapping drawer calls (checked under SpecDrawer)        *)
(***************************************************************************)
\* C23: in every reachable state of the session drawer, selectedSession and
\* drawerError are never both non-null.
C23_SessionXorError == ~(selectedSession # NullSession /\ drawerError # Null)

\* C24: whenever the drawer is closed, selectedSession is null and drawerError is null,
\* also when the response of an earlier call arrives after closeSessionDrawer.
C24_ClosedDrawerIsEmpty ==
  ~isDrawerOpen => (selectedSession = NullSession /\ drawerError = Null)

\* C25: when overlapping openSessionDrawer calls have all resolved successfully,
\* selectedSession is the detail of the session id passed to the most recent call.
C25_MostRecentCallShown ==
  (isDrawerOpen /\ drawerCalls = <<>> /\ drawerError = Null /\ selectedSession # NullSession)
    => selectedSession.sessionId = lastOpened

\* C26: while the table is rendered, currentPage is within 1..max(1, totalPages)
\* and the displayed page is non-empty whenever users is non-empty.
C26_PageWithinRange ==
  tableMounted =>
    /\ currentPage \in 1..(IF totalPages > 1 THEN totalPages ELSE 1)
    /\ (tableUsers # <<>> => getPaginatedData # <<>>)

\* the (campaign, source, medium) triple of a row
Triple(e) == <<e.utm_campaign, e.utm_source, e.utm_medium>>

TriplesOf(rows) == {Triple(rows[i]) : i \in 1..Len(rows)}

\* C27: fetchCampaignAnalytics returns one record per distinct (campaign,
\* source, medium) triple of the rows it read, and the grouping of
\* fetchTrafficSources over the same store yields one record per distinct
\* triple too, also when the values contain '-'.
C27_OneRecordPerTriple ==
  Returned("fetchCampaignAnalytics") =>
    /\ Len(aggOut.value) =
         Cardinality(TriplesOf(SelectSeq(aggEvents, LAMBDA e : e.utm_campaign # <<>>)))
    /\ LET rows == SelectSeq(aggEvents, LAMBDA e : e.utm_source # <<>>)
       IN  Len(TrafficSourcesOf(rows)) = Cardinality(TriplesOf(rows))

\* C28: a fetchAllUsers call that succeeded returns every row at most once
\* and every row that was in users when the call started, also when rows
\* were inserted between its page requests.
C28_NoDuplicateUnderInserts ==
  (LoopSucceeded /\ ret.kind = "rows") =>
    /\ \A i, j \in 1..Len(ret.rows) : ret.rows[i] = ret.rows[j] => i = j
    /\ \A k \in 1..Len(usersTable) :
         usersTable[k] < FirstInsertedAt =>
           \E i \in 1..Len(ret.rows) : ret.rows[i] = usersTable[k]

\* C30: a fetchUsersPaginated call that succeeded returns totalPages =
\* ceil(totalCount / pageSize), hasPrevious iff page > 0 and hasMore iff
\* page + 1 < totalPages; a call whose request failed returns no users, zero
\* counts and both flags false.
C30_PaginationMetadata ==
  /\ pagedOut.kind = "ok" =>
       /\ pagedOut.totalCount = Len(usersTable)
       /\ pagedOut.totalPages * pagedOut.pageSize >= pagedOut.totalCount
       /\ (pagedOut.totalPages - 1) * pagedOut.pageSize < pagedOut.totalCount
       /\ pagedOut.hasPrevious <=> pagedCall.page > 0
       /\ pagedOut.hasMore <=> pagedCall.page + 1 < pagedOut.totalPages
  /\ pagedOut.kind = "error" =>
       /\ pagedOut.users = <<>>
       /\ pagedOut.totalCount = 0
       /\ pagedOut.totalPages = 0
       /\ ~pagedOut.hasMore
       /\ ~pagedOut.hasPrevious
  /\ pagedCall.status = "done" => pagedOut.kind \in {"ok", "error"}

\* a call for the last page but one of a store of several pages has returned
C30_Witness ==
  /\ pagedOut.kind = "ok"
  /\ pagedCall.page > 0
  /\ pagedOut.hasMore
  /\ pagedOut.totalCount = (pagedCall.page + 1) * pagedCall.pageSize + 1

\* C29: when every remote request eventually gets a response, loading
\* eventually becomes false after the initial load, a filter change or a
\* refetch set it.
C29_LoadingEventuallyFalse == loading ~> ~loading

\* two fetch sequences have run to their end, one request failed, and loading is false
C29_Witness ==
  /\ started = MaxStarted
  /\ batches = <<>>
  /\ error # Null
  /\ ~loading

====
